---- MODULE Spec2Model ----
(***************************************************************************)
(* A model of cmakeast: the scanner, the token compressor, the recursive   *)
(* descent parser (cmakeast/ast.py) and the tree visitor                   *)
(* (cmakeast/ast_visitor.py).                                              *)
(*                                                                         *)
(* Text is a sequence of one-character strings.  Indices into the token    *)
(* list are 0-based as in the source; At(tokens, i) reads tokens[i].       *)
(***************************************************************************)
EXTENDS Integers, Sequences, FiniteSets, TLC

VARIABLES contents, pc, error, tokens, tokens_len, index, recorder,
          paren_count, token_index, body, tree, callbacks, calls

vars == <<contents, pc, error, tokens, tokens_len, index, recorder,
          paren_count, token_index, body, tree, callbacks, calls>>

(***************************************************************************)
(* Characters and character classes of the scanner's regular expressions.  *)
(***************************************************************************)
LowerChars == {"a", "b", "c", "d", "e", "f", "g", "h", "i", "j", "k", "l", "m",
               "n", "o", "p", "q", "r", "s", "t", "u", "v", "w", "x", "y", "z"}

UpperChars == {"A", "B", "C", "D", "E", "F", "G", "H", "I", "J", "K", "L", "M",
               "N", "O", "P", "Q", "R", "S", "T", "U", "V", "W", "X", "Y", "Z"}

DigitChars == {"0", "1", "2", "3", "4", "5", "6", "7", "8", "9"}

\* the grave accent (0x60), which a TLA+ string cannot hold, as one character
GraveChar == "grave"

\* control and Unicode characters a TLA+ string cannot hold, each as one
\* character: 0x0B, 0x1C, 0x1D, 0x1E, 0x1F, 0x85, 0xA0, U+2028, U+2029
VTChar == "x0b"

FSChar == "x1c"

GSChar == "x1d"

RSChar == "x1e"

USChar == "x1f"

NELChar == "x85"

NBSPChar == "xa0"

LSChar == "u2028"

PSChar == "u2029"

\* the Unicode space separators: U+1680, U+2000..U+200A, U+202F, U+205F,
\* U+3000
UnicodeSpaceChars ==
    {"u1680", "u2000", "u2001", "u2002", "u2003", "u2004", "u2005", "u2006",
     "u2007", "u2008", "u2009", "u200a", "u202f", "u205f", "u3000"}

\* the characters at which str.splitlines ends a line
LineBreakChars ==
    {"\n", "\r", "\f", VTChar, FSChar, GSChar, RSChar, NELChar, LSChar, PSChar}

\* \s in the rules of re.Scanner, which compiles them without the UNICODE
\* flag: [ \t\n\r\f\v]
SpaceChars == {" ", "\t", "\n", "\r", "\f", VTChar}

\* the characters str.lstrip removes: those for which str.isspace holds
StripChars ==
    SpaceChars \cup LineBreakChars \cup {USChar, NBSPChar}
        \cup UnicodeSpaceChars

\* [a-zA-z_]: the range A-z also holds the six characters between Z and a
WordStartChars ==
    LowerChars \cup UpperChars \cup {"[", "\\", "]", "^", "_", GraveChar}

\* [a-zA-Z0-9_]
WordChars == LowerChars \cup UpperChars \cup DigitChars \cup {"_"}

QuoteChars == {"\"", "'"}

\* (?<![^\s\(]) and its variants: no character before, or one of allowed
PrevOK(line, p, allowed) == p = 1 \/ line[p - 1] \in allowed

\* (?![^\s\)]) and its variants: no character at q, or one of allowed
NextOK(line, q, allowed) == q > Len(line) \/ line[q] \in allowed

\* $ : at the end of the line, or just before a newline that ends it
AtDollar(line, q) ==
    q = Len(line) + 1 \/ (q = Len(line) /\ line[q] = "\n")

\* the end (exclusive) of the longest run of characters of cls from p
RECURSIVE RunEnd(_, _, _)
RunEnd(line, p, cls) ==
    IF p <= Len(line) /\ line[p] \in cls THEN RunEnd(line, p + 1, cls) ELSE p

\* the end (exclusive) of the longest run of characters not in cls from p
RECURSIVE RunEndNot(_, _, _)
RunEndNot(line, p, cls) ==
    IF p <= Len(line) /\ line[p] \notin cls THEN RunEndNot(line, p + 1, cls)
    ELSE p

(***************************************************************************)
(* The scanner rules.  Each gives the end (exclusive) of its match at      *)
(* position p of line, or 0 when it does not match there.                  *)
(***************************************************************************)

\* (?:(?=(\\?))\2.)*?\1(?![^\s\)]) from position i, q the opening quote
RECURSIVE QuotedBody(_, _, _)
QuotedBody(line, q, i) ==
    IF i > Len(line) THEN 0
    ELSE IF line[i] = q /\ NextOK(line, i + 1, SpaceChars \cup {")"})
         THEN i + 1
    ELSE IF line[i] = "\\"
         THEN IF i + 1 <= Len(line) /\ line[i + 1] # "\n"
              THEN QuotedBody(line, q, i + 2) ELSE 0
    ELSE IF line[i] = "\n" THEN 0
    ELSE QuotedBody(line, q, i + 1)

MatchQuotedLiteral(line, p) ==
    IF PrevOK(line, p, SpaceChars \cup {"("}) /\ line[p] \in QuoteChars
    THEN QuotedBody(line, line[p], p + 1) ELSE 0

\* (?<![^\s\(])-?[0-9]+(?![^\s\)\(])
MatchNumber(line, p) ==
    LET d == IF line[p] = "-" THEN p + 1 ELSE p
        e == RunEnd(line, d, DigitChars)
    IN  IF PrevOK(line, p, SpaceChars \cup {"("}) /\ e > d
           /\ NextOK(line, e, SpaceChars \cup {")", "("})
        THEN e ELSE 0

MatchLeftParen(line, p) == IF line[p] = "(" THEN p + 1 ELSE 0

MatchRightParen(line, p) == IF line[p] = ")" THEN p + 1 ELSE 0

\* (?<![^\s\(])[a-zA-z_][a-zA-Z0-9_]*(?![^\s\)\(])
MatchWord(line, p) ==
    LET e == RunEnd(line, p + 1, WordChars)
    IN  IF PrevOK(line, p, SpaceChars \cup {"("}) /\ line[p] \in WordStartChars
           /\ NextOK(line, e, SpaceChars \cup {")", "("})
        THEN e ELSE 0

\* (?<![^\s\(])\${[a-zA-z_][a-zA-Z0-9_]*}(?![^\s\)])
MatchDeref(line, p) ==
    LET e == RunEnd(line, p + 3, WordChars)
    IN  IF PrevOK(line, p, SpaceChars \cup {"("})
           /\ p + 2 <= Len(line)
           /\ line[p] = "$" /\ line[p + 1] = "{"
           /\ line[p + 2] \in WordStartChars
           /\ e <= Len(line) /\ line[e] = "}"
           /\ NextOK(line, e + 1, SpaceChars \cup {")"})
        THEN e + 1 ELSE 0

MatchNewline(line, p) == IF line[p] = "\n" THEN p + 1 ELSE 0

\* \s+
MatchWhitespace(line, p) ==
    LET e == RunEnd(line, p, SpaceChars) IN IF e > p THEN e ELSE 0

\* ([^q]|\\[q])*$ from position i: every q is directly preceded by a
\* backslash that lies inside the repetition, which starts at position s
RECURSIVE BeginBody(_, _, _, _)
BeginBody(line, q, s, i) ==
    IF i > Len(line) THEN TRUE
    ELSE IF line[i] = q /\ ~(i > s /\ line[i - 1] = "\\") THEN FALSE
    ELSE BeginBody(line, q, s, i + 1)

\* (?<![^\s\(\\])[q]([^q]|\\[q])*$
MatchBeginQuoted(line, p, q) ==
    IF PrevOK(line, p, SpaceChars \cup {"(", "\\"}) /\ line[p] = q
       /\ BeginBody(line, q, p + 1, p + 1)
    THEN Len(line) + 1 ELSE 0

\* the last position j in p..e-1 holding a q that no backslash precedes
\* and that whitespace, ")" or the end of the line follows; 0 if none
RECURSIVE LastEndQuote(_, _, _, _)
LastEndQuote(line, q, p, j) ==
    IF j < p THEN 0
    ELSE IF line[j] = q /\ ~(j > 1 /\ line[j - 1] = "\\")
            /\ NextOK(line, j + 1, SpaceChars \cup {")"})
         THEN j
    ELSE LastEndQuote(line, q, p, j - 1)

\* [^\s]*(?<!\\)[q](?![^\s\)])
MatchEndQuoted(line, p, q) ==
    LET e == RunEndNot(line, p, SpaceChars)
        j == LastEndQuote(line, q, p, e - 1)
    IN  IF j = 0 THEN 0 ELSE j + 1

\* does the literal text lit stand at position p of line
RECURSIVE LitAt(_, _, _)
LitAt(line, p, lit) ==
    IF lit = <<>> THEN TRUE
    ELSE IF p > Len(line) \/ line[p] # Head(lit) THEN FALSE
    ELSE LitAt(line, p + 1, Tail(lit))

\* #.rst:$
MatchBeginRSTComment(line, p) ==
    IF line[p] = "#" /\ p + 1 <= Len(line) /\ line[p + 1] # "\n"
       /\ LitAt(line, p + 2, <<"r", "s", "t", ":">>) /\ AtDollar(line, p + 6)
    THEN p + 6 ELSE 0

\* #\[=*\[.rst:$
MatchBeginInlineRST(line, p) ==
    LET e == RunEnd(line, p + 2, {"="})
    IN  IF LitAt(line, p, <<"#", "[">>) /\ LitAt(line, e, <<"[">>)
           /\ e + 1 <= Len(line) /\ line[e + 1] # "\n"
           /\ LitAt(line, e + 2, <<"r", "s", "t", ":">>)
           /\ AtDollar(line, e + 6)
        THEN e + 6 ELSE 0

\* #\]=*\]$
MatchEndInlineRST(line, p) ==
    LET e == RunEnd(line, p + 2, {"="})
    IN  IF LitAt(line, p, <<"#", "]">>) /\ LitAt(line, e, <<"]">>)
           /\ AtDollar(line, e + 1)
        THEN e + 1 ELSE 0

MatchComment(line, p) == IF line[p] = "#" THEN p + 1 ELSE 0

\* [^\s\(]*[^\)] : the longest prefix of the run that a character other
\* than ")" follows
RECURSIVE UnquotedAlt2(_, _, _)
UnquotedAlt2(line, p, k) ==
    IF k < p THEN 0
    ELSE IF k <= Len(line) /\ line[k] # ")" THEN k + 1
    ELSE UnquotedAlt2(line, p, k - 1)

\* ([^\s\(\)]+|[^\s\(]*[^\)]|[^\(][^\s\)]*)
MatchUnquotedLiteral(line, p) ==
    LET e1 == RunEndNot(line, p, SpaceChars \cup {"(", ")"})
        e2 == UnquotedAlt2(line, p,
                           RunEndNot(line, p, SpaceChars \cup {"("}))
    IN  IF e1 > p THEN e1
        ELSE IF e2 > 0 THEN e2
        ELSE IF line[p] # "(" THEN RunEndNot(line, p + 1, SpaceChars \cup {")"})
        ELSE 0

\* the rules in priority order: the first that matches wins
ScannerRules(line, p) ==
    << <<"QuotedLiteral", MatchQuotedLiteral(line, p)>>,
       <<"Number", MatchNumber(line, p)>>,
       <<"LeftParen", MatchLeftParen(line, p)>>,
       <<"RightParen", MatchRightParen(line, p)>>,
       <<"Word", MatchWord(line, p)>>,
       <<"Deref", MatchDeref(line, p)>>,
       <<"Newline", MatchNewline(line, p)>>,
       <<"Whitespace", MatchWhitespace(line, p)>>,
       <<"BeginDoubleQuotedLiteral", MatchBeginQuoted(line, p, "\"")>>,
       <<"EndDoubleQuotedLiteral", MatchEndQuoted(line, p, "\"")>>,
       <<"BeginSingleQuotedLiteral", MatchBeginQuoted(line, p, "'")>>,
       <<"EndSingleQuotedLiteral", MatchEndQuoted(line, p, "'")>>,
       <<"BeginRSTComment", MatchBeginRSTComment(line, p)>>,
       <<"BeginInlineRST", MatchBeginInlineRST(line, p)>>,
       <<"EndInlineRST", MatchEndInlineRST(line, p)>>,
       <<"Comment", MatchComment(line, p)>>,
       <<"UnquotedLiteral", MatchUnquotedLiteral(line, p)>> >>

RECURSIVE FirstMatch(_, _)
FirstMatch(rules, k) ==
    IF k > Len(rules) THEN <<"None", 0>>
    ELSE IF rules[k][2] > 0 THEN rules[k]
    ELSE FirstMatch(rules, k + 1)

Token(type, content, line, col) ==
    [type |-> type, content |-> content, line |-> line, col |-> col]

\* the scan of one line with columns counted from 0
RECURSIVE ScanLine_ColumnFromZero(_, _, _, _)
ScanLine_ColumnFromZero(line, p, lineno, acc) ==
    IF p > Len(line) THEN [tokens |-> acc, stop |-> p]
    ELSE LET m == FirstMatch(ScannerRules(line, p), 1)
         IN  IF m[2] = 0 THEN [tokens |-> acc, stop |-> p]
             ELSE ScanLine_ColumnFromZero(line, m[2], lineno,
                      Append(acc, Token(m[1], SubSeq(line, p, m[2] - 1),
                                        lineno, p - 1)))

\* re.Scanner.scan on one line: the tokens, and the position scanning
\* stopped at (past the end of the line unless no rule matched)
RECURSIVE ScanLine(_, _, _, _)
ScanLine(line, p, lineno, acc) ==
    IF p > Len(line) THEN [tokens |-> acc, stop |-> p]
    ELSE LET m == FirstMatch(ScannerRules(line, p), 1)
         IN  IF m[2] = 0 THEN [tokens |-> acc, stop |-> p]
             ELSE ScanLine(line, m[2], lineno,
                           Append(acc, Token(m[1], SubSeq(line, p, m[2] - 1),
                                             lineno, p)))

\* the end of the first line of a text that is not empty, as
\* str.splitlines(True) cuts it: the place of its first line break (a
\* carriage return and the newline after it are one break), or of its last
\* character
LineEnd(text) ==
    IF \E i \in DOMAIN text : text[i] \in LineBreakChars
    THEN LET i == CHOOSE k \in DOMAIN text :
                      /\ text[k] \in LineBreakChars
                      /\ \A j \in 1..(k - 1) : text[j] \notin LineBreakChars
         IN  IF text[i] = "\r" /\ i < Len(text) /\ text[i + 1] = "\n"
             THEN i + 1 ELSE i
    ELSE Len(text)

RECURSIVE SplitLines(_, _)
SplitLines(text, acc) ==
    IF text = <<>> THEN acc
    ELSE SplitLines(SubSeq(text, LineEnd(text) + 1, Len(text)),
                    Append(acc, SubSeq(text, 1, LineEnd(text))))

\* _scan_for_tokens: [err, tokens]
RECURSIVE ScanLines(_, _, _)
ScanLines(lines, lineno, acc) ==
    IF lineno > Len(lines) THEN [err |-> "none", tokens |-> acc]
    ELSE LET r == ScanLine(lines[lineno], 1, lineno, <<>>)
         IN  IF r.stop <= Len(lines[lineno])
             THEN [err |-> "Unknown tokens", tokens |-> acc]
             ELSE ScanLines(lines, lineno + 1, acc \o r.tokens)

scan_for_tokens(text) == ScanLines(SplitLines(text, <<>>), 1, <<>>)

(***************************************************************************)
(* Token lists.  Indices are 0-based as in the source.                     *)
(***************************************************************************)
At(toks, i) == toks[i + 1]

\* the replacement put in with the token after the range taken out as well
replace_token_range_OneMore(toks, start, end, replacement) ==
    SubSeq(toks, 1, start) \o replacement \o SubSeq(toks, end + 2, Len(toks))

\* tokens[:start] + replacement + tokens[end:]
replace_token_range(toks, start, end, replacement) ==
    SubSeq(toks, 1, start) \o replacement \o SubSeq(toks, end + 1, Len(toks))

\* the contents of tokens[b:e] pasted together
RECURSIVE PasteContents(_, _, _)
PasteContents(toks, b, e) ==
    IF b >= e THEN <<>>
    ELSE At(toks, b).content \o PasteContents(toks, b + 1, e)

is_word_type(token_type) ==
    token_type \in {"Word", "QuotedLiteral", "UnquotedLiteral", "Number",
                    "Deref"}

is_in_comment_type(token_type) ==
    token_type \in {"Comment", "Newline", "Whitespace", "RST",
                    "BeginRSTComment", "BeginInlineRST", "EndInlineRST"}

is_begin_quoted_type(token_type) ==
    token_type \in {"BeginSingleQuotedLiteral", "BeginDoubleQuotedLiteral"}

is_end_quoted_type(token_type) ==
    token_type \in {"EndSingleQuotedLiteral", "EndDoubleQuotedLiteral"}

is_paren_type(token_type) == token_type \in {"LeftParen", "RightParen"}

\* "AssertionError" stands for the failure of
\* assert return_value is not None
get_string_type_from_token(token_type) ==
    IF token_type \in {"BeginSingleQuotedLiteral", "EndSingleQuotedLiteral"}
    THEN "Single"
    ELSE IF token_type \in {"BeginDoubleQuotedLiteral",
                            "EndDoubleQuotedLiteral"}
         THEN "Double"
    ELSE "AssertionError"

BeginLiteralType(q_type) ==
    IF q_type = "Single" THEN "BeginSingleQuotedLiteral"
    ELSE "BeginDoubleQuotedLiteral"

EndLiteralType(q_type) ==
    IF q_type = "Single" THEN "EndSingleQuotedLiteral"
    ELSE "EndDoubleQuotedLiteral"

\* content.lstrip()[0] == "#", or the token is a Comment
is_really_comment(toks, i) ==
    LET c == At(toks, i).content
        k == RunEnd(c, 1, StripChars)
    IN  At(toks, i).type = "Comment" \/ (k <= Len(c) /\ c[k] = "#")

(***************************************************************************)
(* Recorders.  A recorder is a record; NoRecorder stands for None.         *)
(***************************************************************************)
Recorder(kind, begin, line, quote_type) ==
    [kind |-> kind, begin |-> begin, line |-> line, quote_type |-> quote_type]

NoRecorder == Recorder("None", 0, 0, "None")

\* the result of consume_token: done is FALSE when it returned None
Consumed(err, done, rec, i, toks) ==
    [err |-> err, done |-> done, recorder |-> rec, index |-> i,
     tokens_len |-> Len(toks), tokens |-> toks]

\* the first index from i on whose token is not on line l (Len(toks) if none)
RECURSIVE LineTraversal(_, _, _)
LineTraversal(toks, i, l) ==
    IF i < Len(toks) /\ At(toks, i).line = l THEN LineTraversal(toks, i + 1, l)
    ELSE i

RECURSIVE paste_tokens_line_by_line(_, _, _, _, _)
paste_tokens_line_by_line(rec, toks, token_type, block_index, end) ==
    IF block_index >= end
    THEN Consumed("none", TRUE, rec, block_index, toks)
    ELSE LET rst_line == At(toks, block_index).line
             lti == LineTraversal(toks, block_index, rst_line)
             new == replace_token_range(toks, block_index, lti,
                        << Token(token_type,
                                 PasteContents(toks, block_index, lti),
                                 At(toks, block_index).line,
                                 At(toks, block_index).col) >>)
         IN  IF lti = Len(toks) /\ lti # end
             THEN Consumed("AssertionError", TRUE, rec, block_index, toks)
             ELSE paste_tokens_line_by_line(rec, new, token_type,
                      block_index + 1, end - (Len(toks) - Len(new)))

CommentedLineConsume(rec, toks, i, len) ==
    LET finished == At(toks, i).line > rec.line \/ i = len - 1
        end == IF At(toks, i).line > rec.line THEN i ELSE i + 1
        new == replace_token_range(toks, rec.begin, end,
                   << Token("Comment", PasteContents(toks, rec.begin, end),
                            At(toks, rec.begin).line,
                            At(toks, rec.begin).col) >>)
    IN  IF finished THEN Consumed("none", TRUE, rec, rec.begin, new)
        ELSE Consumed("none", FALSE, rec, i, toks)

RSTCommentBlockConsume(rec, toks, i, len) ==
    LET rec1 == IF is_really_comment(toks, i)
                THEN [rec EXCEPT !.line = At(toks, i).line] ELSE rec
        outside == ~is_in_comment_type(At(toks, i).type)
                   /\ rec1.line # At(toks, i).line
        finished == outside \/ i = len - 1
        end == IF outside THEN i ELSE i + 1
    IN  IF finished
        THEN paste_tokens_line_by_line(rec1, toks, "RST", rec1.begin, end)
        ELSE Consumed("none", FALSE, rec1, i, toks)

InlineRSTConsume(rec, toks, i, len) ==
    IF At(toks, i).type = "EndInlineRST"
    THEN paste_tokens_line_by_line(rec, toks, "RST", rec.begin, i + 1)
    ELSE Consumed("none", FALSE, rec, i, toks)

\* the tokens of the rest of a begin-quoted token that closes the string,
\* moved to the line and column of that token
RECURSIVE OffsetTokens(_, _, _)
OffsetTokens(after, line, col) ==
    IF after = <<>> THEN <<>>
    ELSE << Token(Head(after).type, Head(after).content,
                  line + Head(after).line - 1, col + Head(after).col - 1) >>
         \o OffsetTokens(Tail(after), line, col)

\* the string is over at tokens[index]: tokens[begin:index + 1] are pasted
\* into one QuotedLiteral
MultilineStringPaste(rec, toks, i) ==
    Consumed("none", TRUE, rec, rec.begin,
             replace_token_range(toks, rec.begin, i + 1,
                 << Token("QuotedLiteral",
                          PasteContents(toks, rec.begin, i + 1),
                          At(toks, rec.begin).line,
                          At(toks, rec.begin).col) >>))

\* the edge case of a begin-quoted token t = tokens[index] that closes the
\* string: its first character becomes the end-quoted token and the rest,
\* scanned to line_tokens, follows it
MultilineStringEdgeCase(rec, toks, i, t, line_tokens) ==
    IF Head(t.content) \notin QuoteChars
    THEN Consumed("AssertionError", TRUE, rec, i, toks)
    ELSE IF line_tokens.err # "none"
    THEN Consumed(line_tokens.err, TRUE, rec, i, toks)
    ELSE MultilineStringPaste(rec,
             replace_token_range(toks, i, i + 1,
                 << Token(EndLiteralType(rec.quote_type), <<Head(t.content)>>,
                          t.line, t.col) >>
                 \o OffsetTokens(line_tokens.tokens, t.line, t.col)),
             i)

MultilineStringConsume(rec, toks, i, len) ==
    IF i # rec.begin /\ At(toks, i).type = BeginLiteralType(rec.quote_type)
    THEN MultilineStringEdgeCase(rec, toks, i, At(toks, i),
                                 scan_for_tokens(Tail(At(toks, i).content)))
    ELSE IF At(toks, i).type = EndLiteralType(rec.quote_type)
    THEN MultilineStringPaste(rec, toks, i)
    ELSE Consumed("none", FALSE, rec, i, toks)

consume_token(rec, toks, i, len) ==
    CASE rec.kind = "InlineRST" -> InlineRSTConsume(rec, toks, i, len)
      [] rec.kind = "RSTCommentBlock" -> RSTCommentBlockConsume(rec, toks, i, len)
      [] rec.kind = "CommentedLine" -> CommentedLineConsume(rec, toks, i, len)
      [] rec.kind = "MultilineString" -> MultilineStringConsume(rec, toks, i, len)

\* _RECORDERS in order: each maybe_start_recording in turn
find_recorder(rec, toks, i) ==
    IF rec.kind # "None" THEN rec
    ELSE IF At(toks, i).type = "BeginInlineRST"
         THEN Recorder("InlineRST", i, 0, "None")
    ELSE IF At(toks, i).type = "BeginRSTComment"
         THEN Recorder("RSTCommentBlock", i, At(toks, i).line, "None")
    ELSE IF is_really_comment(toks, i)
         THEN Recorder("CommentedLine", i, At(toks, i).line, "None")
    ELSE IF is_begin_quoted_type(At(toks, i).type)
         THEN Recorder("MultilineString", i, 0,
                       get_string_type_from_token(At(toks, i).type))
    ELSE rec

AsUnquotedLiteral(t) == Token("UnquotedLiteral", t.content, t.line, t.col)

\* the rewrite of nested parentheses beginning one level too deep
edge_case_stray_parens_Deeper(toks, i, count) ==
    LET token_type == At(toks, i).type
        c1 == IF token_type = "LeftParen" THEN count + 1 ELSE count
        toks1 == IF c1 > 2
                 THEN [toks EXCEPT ![i + 1] = AsUnquotedLiteral(At(toks, i))]
                 ELSE toks
        c2 == IF token_type = "RightParen" THEN c1 - 1 ELSE c1
    IN  [tokens |-> toks1, paren_count |-> c2]

\* the rewrite decided on the count as it is before a LeftParen is counted
edge_case_stray_parens_CheckFirst(toks, i, count) ==
    LET token_type == At(toks, i).type
        toks1 == IF count > 1
                 THEN [toks EXCEPT ![i + 1] = AsUnquotedLiteral(At(toks, i))]
                 ELSE toks
        c2 == CASE token_type = "LeftParen" -> count + 1
                [] token_type = "RightParen" -> count - 1
                [] OTHER -> count
    IN  [tokens |-> toks1, paren_count |-> c2]

\* _EdgeCaseStrayParens.__call__: [tokens, paren_count]
edge_case_stray_parens(toks, i, count) ==
    LET token_type == At(toks, i).type
        c1 == IF token_type = "LeftParen" THEN count + 1 ELSE count
        toks1 == IF c1 > 1
                 THEN [toks EXCEPT ![i + 1] = AsUnquotedLiteral(At(toks, i))]
                 ELSE toks
        c2 == IF token_type = "RightParen" THEN c1 - 1 ELSE c1
    IN  [tokens |-> toks1, paren_count |-> c2]

\* a stray end-quoted token left as it is
edge_case_stray_end_quoted_Kept(toks, i) == toks

edge_case_stray_end_quoted(toks, i) ==
    [toks EXCEPT ![i + 1] = AsUnquotedLiteral(At(toks, i))]

\* the edge_cases list applied in order to tokens[index]
EdgeCases(toks, i, count) ==
    LET a == IF is_paren_type(At(toks, i).type)
             THEN edge_case_stray_parens(toks, i, count)
             ELSE [tokens |-> toks, paren_count |-> count]
        b == IF is_end_quoted_type(At(a.tokens, i).type)
             THEN edge_case_stray_end_quoted(a.tokens, i) ELSE a.tokens
    IN  [tokens |-> b, paren_count |-> a.paren_count]

\* the cursor left on the first token of the range when a recorder closes
compress_recording_AtRangeStart(st, r) ==
    IF r.err # "none" THEN [st EXCEPT !.err = r.err]
    ELSE IF r.done
    THEN [st EXCEPT !.index = r.index, !.tokens_len = r.tokens_len,
                    !.tokens = r.tokens, !.recorder = NoRecorder]
    ELSE [st EXCEPT !.index = st.index + 1, !.recorder = r.recorder]

\* the recorder consumed tokens[index] with the result r
compress_recording(st, r) ==
    IF r.err # "none" THEN [st EXCEPT !.err = r.err]
    ELSE IF r.done
    THEN [st EXCEPT !.index = r.index + 1, !.tokens_len = r.tokens_len,
                    !.tokens = r.tokens, !.recorder = NoRecorder]
    ELSE [st EXCEPT !.index = st.index + 1, !.recorder = r.recorder]

\* no recorder: the edge cases rewrote tokens[index] with the result e
compress_edge_cases(st, e) ==
    [st EXCEPT !.index = st.index + 1, !.tokens = e.tokens,
               !.paren_count = e.paren_count]

\* the body of the loop once _find_recorder has given rec
compress_with_recorder(st, rec) ==
    IF rec.kind # "None"
    THEN compress_recording(st, consume_token(rec, st.tokens, st.index,
                                              st.tokens_len))
    ELSE compress_edge_cases(st, EdgeCases(st.tokens, st.index,
                                           st.paren_count))

\* one iteration of the while loop of _compress_tokens on the state st
compress_iteration(st) ==
    compress_with_recorder(st, find_recorder(st.recorder, st.tokens, st.index))

\* _EdgeCaseStrayParens.__exit__: the assertion made on leaving the with
\* block, also when an exception leaves it
ExitError(err, count) == IF count # 0 THEN "AssertionError" ELSE err

\* tokenize's filter
RECURSIVE FilterWhitespace(_)
FilterWhitespace(toks) ==
    IF toks = <<>> THEN <<>>
    ELSE IF Head(toks).type = "Whitespace" THEN FilterWhitespace(Tail(toks))
    ELSE <<Head(toks)>> \o FilterWhitespace(Tail(toks))

CompressStart(toks) ==
    [tokens |-> toks, tokens_len |-> Len(toks), index |-> 0,
     recorder |-> NoRecorder, paren_count |-> 0, err |-> "none"]

\* the loop of _compress_tokens run to its end, and the exit assertion
RECURSIVE CompressRun(_)
CompressRun(st) ==
    IF st.err # "none" THEN [st EXCEPT !.err = ExitError(st.err, st.paren_count)]
    ELSE IF st.index < st.tokens_len THEN CompressRun(compress_iteration(st))
    ELSE [st EXCEPT !.err = ExitError("none", st.paren_count)]

\* tokenize: [err, tokens]
tokenize(text) ==
    LET s == scan_for_tokens(text)
        c == CompressRun(CompressStart(s.tokens))
    IN  IF s.err # "none" THEN [err |-> s.err, tokens |-> <<>>]
        ELSE IF c.err # "none" THEN [err |-> c.err, tokens |-> <<>>]
        ELSE [err |-> "none", tokens |-> FilterWhitespace(c.tokens)]

(***************************************************************************)
(* The parser.  Every routine gives a record with err, "none" unless an    *)
(* exception left it, and the index it stopped at.                         *)
(***************************************************************************)
Kw_if == <<"i", "f">>
Kw_else == <<"e", "l", "s", "e">>
Kw_elseif == <<"e", "l", "s", "e", "i", "f">>
Kw_endif == <<"e", "n", "d", "i", "f">>
Kw_function == <<"f", "u", "n", "c", "t", "i", "o", "n">>
Kw_endfunction == <<"e", "n", "d">> \o Kw_function
Kw_macro == <<"m", "a", "c", "r", "o">>
Kw_endmacro == <<"e", "n", "d">> \o Kw_macro
Kw_foreach == <<"f", "o", "r", "e", "a", "c", "h">>
Kw_endforeach == <<"e", "n", "d">> \o Kw_foreach
Kw_while == <<"w", "h", "i", "l", "e">>
Kw_endwhile == <<"e", "n", "d">> \o Kw_while

\* the alternatives of _RE_END_IF_BODY, _RE_ENDFUNCTION, _RE_ENDMACRO,
\* _RE_ENDFOREACH and _RE_ENDWHILE
EndBodyRegex(name) ==
    CASE name = "_RE_END_IF_BODY" -> {Kw_endif, Kw_else, Kw_elseif}
      [] name = "_RE_ENDFUNCTION" -> {Kw_endfunction}
      [] name = "_RE_ENDMACRO" -> {Kw_endmacro}
      [] name = "_RE_ENDFOREACH" -> {Kw_endforeach}
      [] name = "_RE_ENDWHILE" -> {Kw_endwhile}

IsPrefix(pre, s) == Len(pre) <= Len(s) /\ SubSeq(s, 1, Len(pre)) = pre

\* regex.match(content): the pattern matches at the start of content
RegexMatch(alternatives, content) ==
    \E a \in alternatives : IsPrefix(a, content)

\* the table with the entry of Word tokens taken from UnquotedLiteral
word_type_Swapped(token_type) ==
    CASE token_type = "QuotedLiteral" -> "String"
      [] token_type = "Number" -> "Number"
      [] token_type = "Deref" -> "VariableDereference"
      [] token_type = "Word" -> "CompoundLiteral"
      [] token_type = "UnquotedLiteral" -> "CompoundLiteral"

\* _WORD_TYPES_DISPATCH
word_type(token_type) ==
    CASE token_type = "QuotedLiteral" -> "String"
      [] token_type = "Number" -> "Number"
      [] token_type = "Deref" -> "VariableDereference"
      [] token_type = "Word" -> "Variable"
      [] token_type = "UnquotedLiteral" -> "CompoundLiteral"

Word(type, contents_, line, col, index_) ==
    [kind |-> "Word", type |-> type, contents |-> contents_, line |-> line,
     col |-> col, index |-> index_]

\* the Word node that _ast_worker builds from tokens[i]
WordOfToken(toks, i) ==
    Word(word_type(At(toks, i).type), At(toks, i).content, At(toks, i).line,
         At(toks, i).col, i)

FunctionCall(name, arguments, line, col, index_) ==
    [kind |-> "FunctionCall", name |-> name, arguments |-> arguments,
     line |-> line, col |-> col, index |-> index_]

\* FunctionDefinition, MacroDefinition, ForeachStatement, WhileStatement
FooterNode(kind, header, body_, line, col, index_, footer) ==
    [kind |-> kind, header |-> header, body |-> body_, line |-> line,
     col |-> col, index |-> index_, footer |-> footer]

\* IfStatement, ElseIfStatement, ElseStatement
ClauseNode(kind, header, body_, line, col, index_) ==
    [kind |-> kind, header |-> header, body |-> body_, line |-> line,
     col |-> col, index |-> index_]

IfBlock(if_statement, elseif_statements, else_statement, line, col, index_, footer) ==
    [kind |-> "IfBlock", if_statement |-> if_statement,
     elseif_statements |-> elseif_statements,
     else_statement |-> else_statement, line |-> line, col |-> col,
     index |-> index_, footer |-> footer]

ToplevelBody(statements) == [kind |-> "ToplevelBody", statements |-> statements]

\* Python's None
NoneNode == [kind |-> "NoneType"]

GenericBody(err, i, statements, arguments) ==
    [err |-> err, index |-> i, statements |-> statements,
     arguments |-> arguments]

Handled(err, i, node) == [err |-> err, index |-> i, node |-> node]

\* the table without its entry for while
FunctionCallDisambiguate_WhileAsCall(name) ==
    CASE name = Kw_function ->
             [regex |-> "_RE_ENDFUNCTION", kind |-> "FunctionDefinition"]
      [] name = Kw_macro ->
             [regex |-> "_RE_ENDMACRO", kind |-> "MacroDefinition"]
      [] name = Kw_if -> [regex |-> "_RE_END_IF_BODY", kind |-> "IfBlock"]
      [] name = Kw_foreach ->
             [regex |-> "_RE_ENDFOREACH", kind |-> "ForeachStatement"]
      [] OTHER -> [regex |-> "None", kind |-> "None"]

\* _FUNCTION_CALL_DISAMBIGUATE: the body handler of a call's name
FunctionCallDisambiguate(name) ==
    CASE name = Kw_function ->
             [regex |-> "_RE_ENDFUNCTION", kind |-> "FunctionDefinition"]
      [] name = Kw_macro ->
             [regex |-> "_RE_ENDMACRO", kind |-> "MacroDefinition"]
      [] name = Kw_if -> [regex |-> "_RE_END_IF_BODY", kind |-> "IfBlock"]
      [] name = Kw_foreach ->
             [regex |-> "_RE_ENDFOREACH", kind |-> "ForeachStatement"]
      [] name = Kw_while ->
             [regex |-> "_RE_ENDWHILE", kind |-> "WhileStatement"]
      [] OTHER -> [regex |-> "None", kind |-> "None"]

\* the termination functions handed to _ast_worker: "None" (no function),
\* "_end_function_call", or _end_header_body_definition for a regex.
\* "True", "False", or "Syntax Error" when it raises
Term(term, toks, i) ==
    IF term = "None" THEN "False"
    ELSE IF term = "_end_function_call"
         THEN (IF At(toks, i).type = "RightParen" THEN "True" ELSE "False")
    ELSE IF RegexMatch(EndBodyRegex(term), At(toks, i).content)
         THEN (IF i + 1 >= Len(toks) THEN "Syntax Error"
               ELSE IF At(toks, i + 1).type = "LeftParen" THEN "True"
               ELSE "False")
    ELSE "False"

RECURSIVE ast_worker(_, _, _, _, _, _)
RECURSIVE handle_function_call(_, _, _)
RECURSIVE header_body_handler(_, _, _, _, _, _, _)
RECURSIVE IfBlockLoop(_, _, _, _, _, _, _)

\* _ast_worker, its while loop from index on with the statements and
\* arguments gathered so far
ast_worker(toks, len, i, term, statements, arguments) ==
    IF i >= len THEN GenericBody("none", i, statements, arguments)
    ELSE LET t == Term(term, toks, i)
             c == handle_function_call(toks, len, i)
         IN  IF t = "Syntax Error"
             THEN GenericBody("Syntax Error", i, statements, arguments)
             ELSE IF t = "True"
             THEN GenericBody("none", i, statements, arguments)
             ELSE IF At(toks, i).type = "Word" /\ i + 1 < len
                     /\ At(toks, i + 1).type = "LeftParen"
             THEN IF c.err # "none"
                  THEN GenericBody(c.err, i, statements, arguments)
                  ELSE ast_worker(toks, len, c.index + 1, term,
                                  Append(statements, c.node), arguments)
             ELSE IF is_word_type(At(toks, i).type)
             THEN ast_worker(toks, len, i + 1, term, statements,
                             Append(arguments, WordOfToken(toks, i)))
             ELSE ast_worker(toks, len, i + 1, term, statements, arguments)

\* the handler made by _make_header_body_handler
header_body_handler(end_body_regex, node_kind, has_footer, toks, len, body_index, function_call) ==
    LET b == ast_worker(toks, len, body_index, end_body_regex, <<>>, <<>>)
        f == handle_function_call(toks, len, b.index)
        t == At(toks, body_index)
    IN  IF b.err # "none" THEN Handled(b.err, b.index, NoneNode)
        ELSE IF has_footer /\ f.err # "none"
        THEN Handled(f.err, f.index, NoneNode)
        ELSE IF body_index >= Len(toks)
        THEN Handled("IndexError", b.index, NoneNode)
        ELSE IF has_footer
        THEN Handled("none", f.index,
                     FooterNode(node_kind, function_call, b.statements,
                                t.line, t.col, body_index, f.node))
        ELSE Handled("none", b.index,
                     ClauseNode(node_kind, function_call, b.statements,
                                t.line, t.col, body_index))

\* the terminator compared as the regular expressions compare it, by its
\* beginning
TerminatorIs_Prefix(terminator, keyword) == IsPrefix(keyword, terminator)

\* terminator == "endif", == "elseif", == "else" in _handle_if_block
TerminatorIs(terminator, keyword) == terminator = keyword

\* the clause put at the front of the list
elseif_statements_append_Front(elseif_statements, elseif_stmnt) ==
    <<elseif_stmnt>> \o elseif_statements

\* elseif_statements.append(elseif_stmnt)
elseif_statements_append(elseif_statements, elseif_stmnt) ==
    Append(elseif_statements, elseif_stmnt)

\* the while loop of _handle_if_block
IfBlockLoop(toks, len, body_index, next_index, if_statement, elseif_statements, else_statement) ==
    IF next_index >= Len(toks)
    THEN Handled("IndexError", next_index, NoneNode)
    ELSE IF ~RegexMatch(EndBodyRegex("_RE_END_IF_BODY"),
                        At(toks, next_index).content)
    THEN Handled("AssertionError", next_index, NoneNode)
    ELSE
    LET terminator == At(toks, next_index).content
        h == handle_function_call(toks, len, next_index)
        kind == IF TerminatorIs(terminator, Kw_elseif) THEN "ElseIfStatement"
                ELSE "ElseStatement"
        s == header_body_handler("_RE_END_IF_BODY", kind, FALSE, toks, len,
                                 h.index + 1, h.node)
    IN  IF h.err # "none" THEN Handled(h.err, h.index, NoneNode)
        ELSE IF TerminatorIs(terminator, Kw_endif)
        THEN Handled("none", h.index,
                     IfBlock(if_statement, elseif_statements, else_statement,
                             if_statement.line, if_statement.col, body_index,
                             h.node))
        ELSE IF TerminatorIs(terminator, Kw_elseif)
                \/ TerminatorIs(terminator, Kw_else)
        THEN IF s.err # "none" THEN Handled(s.err, s.index, NoneNode)
             ELSE IF TerminatorIs(terminator, Kw_elseif)
             THEN IfBlockLoop(toks, len, body_index, s.index, if_statement,
                              elseif_statements_append(elseif_statements,
                                                       s.node),
                              else_statement)
             ELSE IfBlockLoop(toks, len, body_index, s.index, if_statement,
                              elseif_statements, s.node)
        ELSE IfBlockLoop(toks, len, body_index, h.index, if_statement,
                         elseif_statements, else_statement)

handle_if_block(toks, len, body_index, function_call) ==
    LET r == header_body_handler("_RE_END_IF_BODY", "IfStatement", FALSE,
                                 toks, len, body_index, function_call)
    IN  IF r.err # "none" THEN r
        ELSE IfBlockLoop(toks, len, body_index, r.index, r.node, <<>>,
                         NoneNode)

handle_function_call(toks, len, i) ==
    LET w == ast_worker(toks, len, i + 2, "_end_function_call", <<>>, <<>>)
        t == At(toks, i)
        function_call == FunctionCall(t.content, w.arguments, t.line, t.col, i)
        handler == FunctionCallDisambiguate(t.content)
    IN  IF w.err # "none" THEN Handled(w.err, w.index, NoneNode)
        ELSE IF i >= Len(toks) THEN Handled("IndexError", w.index, NoneNode)
        ELSE IF handler.kind = "IfBlock"
        THEN handle_if_block(toks, len, w.index, function_call)
        ELSE IF handler.kind # "None"
        THEN header_body_handler(handler.regex, handler.kind, TRUE, toks, len,
                                 w.index, function_call)
        ELSE Handled("none", w.index, function_call)

\* parse with its second assertion left out
ParseAssertions_CursorOnly(cursor, arguments, toks) == cursor = Len(toks)

\* the two assertions of parse
ParseAssertions(cursor, arguments, toks) ==
    cursor = Len(toks) /\ arguments = <<>>

\* parse on the tokens that tokenize gave: [err, token_index, body, tree]
ParseTokens(toks) ==
    LET w == ast_worker(toks, Len(toks), 0, "None", <<>>, <<>>)
        err == IF w.err # "none" THEN w.err
               ELSE IF ~ParseAssertions(w.index, w.arguments, toks)
               THEN "AssertionError" ELSE "none"
    IN  [err |-> err, token_index |-> w.index,
         body |-> [statements |-> w.statements, arguments |-> w.arguments],
         tree |-> IF err = "none" THEN ToplevelBody(w.statements)
                  ELSE NoneNode]

\* parse(contents)
parse(text) ==
    LET t == tokenize(text)
    IN  IF t.err # "none"
        THEN [err |-> t.err, token_index |-> 0,
              body |-> [statements |-> <<>>, arguments |-> <<>>],
              tree |-> NoneNode]
        ELSE ParseTokens(t.tokens)

(***************************************************************************)
(* The visitor (cmakeast/ast_visitor.py).                                  *)
(***************************************************************************)
NodeInfo(handler, single, multi) ==
    [handler |-> handler, single |-> single, multi |-> multi]

NodeKinds ==
    {"ToplevelBody", "WhileStatement", "ForeachStatement",
     "FunctionDefinition", "MacroDefinition", "IfBlock", "IfStatement",
     "ElseIfStatement", "ElseStatement", "FunctionCall", "Word"}

\* _NODE_INFO_TABLE
NODE_INFO_TABLE ==
    [k \in NodeKinds |->
        CASE k = "ToplevelBody" -> NodeInfo("toplevel", <<>>, <<"statements">>)
          [] k = "WhileStatement" ->
                 NodeInfo("while_stmnt", <<"header", "footer">>, <<"body">>)
          [] k = "ForeachStatement" ->
                 NodeInfo("foreach", <<"header", "footer">>, <<"body">>)
          [] k = "FunctionDefinition" ->
                 NodeInfo("function_def", <<"header", "footer">>, <<"body">>)
          [] k = "MacroDefinition" ->
                 NodeInfo("macro_def", <<"header", "footer">>, <<"body">>)
          [] k = "IfBlock" ->
                 NodeInfo("if_block",
                          <<"if_statement", "else_statement", "footer">>,
                          <<"elseif_statements">>)
          [] k = "IfStatement" -> NodeInfo("if_stmnt", <<"header">>, <<"body">>)
          [] k = "ElseIfStatement" ->
                 NodeInfo("elseif_stmnt", <<"header">>, <<"body">>)
          [] k = "ElseStatement" ->
                 NodeInfo("else_stmnt", <<"header">>, <<"body">>)
          [] k = "FunctionCall" ->
                 NodeInfo("function_call", <<>>, <<"arguments">>)
          [] k = "Word" -> NodeInfo("word", <<>>, <<>>)]

Handlers == {NODE_INFO_TABLE[k].handler : k \in NodeKinds}

\* one invocation action(node_name, node, depth) of the callback that was
\* registered under key
Invocation(key, name, node, depth) ==
    [key |-> key, name |-> name, node |-> node, depth |-> depth]

\* the depth handed down as it was received
ChildDepth_Same(depth) == depth

\* kwargs["depth"] = depth + 1
ChildDepth(depth) == depth + 1

RECURSIVE recurse_worker(_, _)
RECURSIVE RecurseSingles(_, _, _)
RECURSIVE RecurseStatements(_, _)
RECURSIVE RecurseMultis(_, _, _)

\* _recurse going through the multi fields before the single fields
recurse_worker_MultisFirst(node, kwargs) ==
    IF node.kind \notin DOMAIN NODE_INFO_TABLE THEN <<>>
    ELSE LET info_for_node == NODE_INFO_TABLE[node.kind]
             action == kwargs[info_for_node.handler]
             depth == kwargs["depth"]
             recurse_kwargs == [kwargs EXCEPT !["depth"] = ChildDepth(depth)]
         IN  (IF action # "None"
              THEN <<Invocation(action, node.kind, node, depth)>> ELSE <<>>)
             \o RecurseMultis(node, info_for_node.multi, recurse_kwargs)
             \o RecurseSingles(node, info_for_node.single, recurse_kwargs)

\* _recurse: the invocations it makes, in order
recurse_worker(node, kwargs) ==
    IF node.kind \notin DOMAIN NODE_INFO_TABLE THEN <<>>
    ELSE LET info_for_node == NODE_INFO_TABLE[node.kind]
             action == kwargs[info_for_node.handler]
             depth == kwargs["depth"]
             recurse_kwargs == [kwargs EXCEPT !["depth"] = ChildDepth(depth)]
         IN  (IF action # "None"
              THEN <<Invocation(action, node.kind, node, depth)>> ELSE <<>>)
             \o RecurseSingles(node, info_for_node.single, recurse_kwargs)
             \o RecurseMultis(node, info_for_node.multi, recurse_kwargs)

\* the loop over info_for_node.single that stops after the first field
RecurseSingles_FirstOnly(node, singles, kwargs) ==
    IF singles = <<>> THEN <<>>
    ELSE recurse_worker(node[Head(singles)], kwargs)

RecurseSingles(node, singles, kwargs) ==
    IF singles = <<>> THEN <<>>
    ELSE recurse_worker(node[Head(singles)], kwargs)
         \o RecurseSingles(node, Tail(singles), kwargs)

RecurseStatements(statements, kwargs) ==
    IF statements = <<>> THEN <<>>
    ELSE recurse_worker(Head(statements), kwargs)
         \o RecurseStatements(Tail(statements), kwargs)

RecurseMultis(node, multis, kwargs) ==
    IF multis = <<>> THEN <<>>
    ELSE RecurseStatements(node[Head(multis)], kwargs)
         \o RecurseMultis(node, Tail(multis), kwargs)

\* recurse(node, **kwargs), registered the keys under which the caller
\* passed a callback; a callback is known by the key it was passed under
recurse(node, registered) ==
    LET fwd == [h \in Handlers \cup {"depth"} |->
                   IF h = "depth" THEN 0
                   ELSE IF h \in registered THEN h ELSE "None"]
    IN  recurse_worker(node, fwd)

(***************************************************************************)
(* The texts handed to parse: scripts put together from a few pieces.      *)
(***************************************************************************)
\* if (A)\n
L_if ==
    <<"i", "f", " ", "(", "A", ")", "\n">>

\* elseif (B)\n
L_elseif ==
    <<"e", "l", "s", "e", "i", "f", " ", "(", "B", ")", "\n">>

\* else ()\n
L_else ==
    <<"e", "l", "s", "e", " ", "(", ")", "\n">>

\* endif ()\n
L_endif ==
    <<"e", "n", "d", "i", "f", " ", "(", ")", "\n">>

\* function (f)\n
L_function ==
    <<"f", "u", "n", "c", "t", "i", "o", "n", " ", "(", "f", ")", "\n">>

\* endfunction ()\n
L_endfunction ==
    <<"e", "n", "d", "f", "u", "n", "c", "t", "i", "o", "n", " ", "(", ")",
      "\n">>

\* macro (m)\n
L_macro ==
    <<"m", "a", "c", "r", "o", " ", "(", "m", ")", "\n">>

\* endmacro ()\n
L_endmacro ==
    <<"e", "n", "d", "m", "a", "c", "r", "o", " ", "(", ")", "\n">>

\* foreach (v)\n
L_foreach ==
    <<"f", "o", "r", "e", "a", "c", "h", " ", "(", "v", ")", "\n">>

\* endforeach ()\n
L_endforeach ==
    <<"e", "n", "d", "f", "o", "r", "e", "a", "c", "h", " ", "(", ")", "\n">>

\* while (c)\n
L_while ==
    <<"w", "h", "i", "l", "e", " ", "(", "c", ")", "\n">>

\* endwhile ()\n
L_endwhile ==
    <<"e", "n", "d", "w", "h", "i", "l", "e", " ", "(", ")", "\n">>

\* endfunction_helper ()\n
L_endfunction_helper ==
    <<"e", "n", "d", "f", "u", "n", "c", "t", "i", "o", "n", "_", "h", "e",
      "l", "p", "e", "r", " ", "(", ")", "\n">>

\* endmacro_helper ()\n
L_endmacro_helper ==
    <<"e", "n", "d", "m", "a", "c", "r", "o", "_", "h", "e", "l", "p", "e",
      "r", " ", "(", ")", "\n">>

\* endforeach_helper ()\n
L_endforeach_helper ==
    <<"e", "n", "d", "f", "o", "r", "e", "a", "c", "h", "_", "h", "e", "l",
      "p", "e", "r", " ", "(", ")", "\n">>

\* endwhile_helper ()\n
L_endwhile_helper ==
    <<"e", "n", "d", "w", "h", "i", "l", "e", "_", "h", "e", "l", "p", "e",
      "r", " ", "(", ")", "\n">>

\* endif_check ()\n
L_endif_check ==
    <<"e", "n", "d", "i", "f", "_", "c", "h", "e", "c", "k", " ", "(", ")",
      "\n">>

\* if (A)\nendif ()\n
L_if_endif ==
    <<"i", "f", " ", "(", "A", ")", "\n", "e", "n", "d", "i", "f", " ",
      "(", ")", "\n">>

\* g (x 1 "s" ${v} a/b)\n
L_call ==
    <<"g", " ", "(", "x", " ", "1", " ", "\"", "s", "\"", " ", "$", "{",
      "v", "}", " ", "a", "/", "b", ")", "\n">>

\* f ( ( ABC ) )
L_nested_parens ==
    <<"f", " ", "(", " ", "(", " ", "A", "B", "C", " ", ")", " ", ")">>

\* x\n
L_word ==
    <<"x", "\n">>

\* # c (\n
L_comment ==
    <<"#", " ", "c", " ", "(", "\n">>

\* \n
L_newline ==
    <<"\n">>

\* "a\n
L_open_double ==
    <<"\"", "a", "\n">>

\* b"\n
L_close_double ==
    <<"b", "\"", "\n">>

\* #[[.rst:\n
L_begin_inline_rst ==
    <<"#", "[", "[", ".", "r", "s", "t", ":", "\n">>

\* #]]
L_end_inline_rst ==
    <<"#", "]", "]">>

\* #.rst:\n
L_begin_rst ==
    <<"#", ".", "r", "s", "t", ":", "\n">>

\* x" y\n
L_stray_end_quoted ==
    <<"x", "\"", " ", "y", "\n">>

\* if (A)\nelseif (B)\nb ()\n
L_if_elseif_body ==
    <<"i", "f", " ", "(", "A", ")", "\n", "e", "l", "s", "e", "i", "f",
      " ", "(", "B", ")", "\n", "b", " ", "(", ")", "\n">>

\* else ()\nelseif (C)\nc ()\n
L_else_elseif_body ==
    <<"e", "l", "s", "e", " ", "(", ")", "\n", "e", "l", "s", "e", "i",
      "f", " ", "(", "C", ")", "\n", "c", " ", "(", ")", "\n">>

\* f ("a\n
L_call_open_double ==
    <<"f", " ", "(", "\"", "a", "\n">>

\* b" "c\n
L_close_open_double ==
    <<"b", "\"", " ", "\"", "c", "\n">>

\* d")\n
L_close_double_call ==
    <<"d", "\"", ")", "\n">>

\* q' ( # 'r\n
L_inside_string ==
    <<"q", "'", " ", "(", " ", "#", " ", "'", "r", "\n">>

\* g ('s\n
L_call_open_single ==
    <<"g", " ", "(", "'", "s", "\n">>

\* t')\n
L_close_single_call ==
    <<"t", "'", ")", "\n">>

\* "e)\n
L_begin_closes_double ==
    <<"\"", "e", ")", "\n">>

\* f (ARG="BAR")\n
L_call_assign ==
    <<"f", " ", "(", "A", "R", "G", "=", "\"", "B", "A", "R", "\"", ")",
      "\n">>

\* # a\n
L_rst_comment ==
    <<"#", " ", "a", "\n">>

\* #[[.rst:\nabc\n
L_inline_rst_open ==
    <<"#", "[", "[", ".", "r", "s", "t", ":", "\n", "a", "b", "c", "\n">>

\* #]]\n
L_end_inline_rst_newline ==
    <<"#", "]", "]", "\n">>

\* f (x)\n
L_call_x ==
    <<"f", " ", "(", "x", ")", "\n">>

\*   f (x)\n
L_indented_call ==
    <<" ", " ", "f", " ", "(", "x", ")", "\n">>

\* # c\rf (x)\n : a carriage return ends the comment's line
L_comment_return ==
    <<"#", " ", "c", "\r", "f", " ", "(", "x", ")", "\n">>

\* <U+00A0>#" y\n : an end-quoted token that lstrip turns into a comment start
L_space_hash_quote ==
    <<NBSPChar, "#", "\"", " ", "y", "\n">>

\* <U+001F>#" : the same at the end of a script, without a newline
L_unit_hash_quote ==
    <<USChar, "#", "\"">>

\* # d "x\n
L_comment_quote ==
    <<"#", " ", "d", " ", "\"", "x", "\n">>

\* f (\n
L_open_paren ==
    <<"f", " ", "(", "\n">>

\* )\n
L_close_paren ==
    <<")", "\n">>

\* while (c)\nwhile (c)\n
L_while_nested ==
    <<"w", "h", "i", "l", "e", " ", "(", "c", ")", "\n", "w", "h", "i", "l",
      "e", " ", "(", "c", ")", "\n">>

\* endwhile ()\nf (x)\n
L_endwhile_call ==
    <<"e", "n", "d", "w", "h", "i", "l", "e", " ", "(", ")", "\n", "f", " ",
      "(", "x", ")", "\n">>

\* f ([a ^b _c 0A -1 ${^d})\n
L_call_words ==
    <<"f", " ", "(", "[", "a", " ", "^", "b", " ", "_", "c", " ", "0", "A",
      " ", "-", "1", " ", "$", "{", "^", "d", "}", ")", "\n">>

\* the pieces of the scripts, one family for each kind of block, one of
\* comments and strings, one of multi-line strings, one of RST and one of
\* nested blocks
FunctionLines ==
    {L_function, L_endfunction, Kw_endfunction, L_endfunction_helper,
     L_endmacro, L_if_endif, L_call, L_word, L_newline}

MacroLines ==
    {L_macro, L_endmacro, Kw_endmacro, L_endmacro_helper, L_endwhile,
     L_call, L_newline, L_call_words}

ForeachLines ==
    {L_foreach, L_endforeach, Kw_endforeach, L_endforeach_helper,
     L_endfunction, L_nested_parens, L_newline}

WhileLines ==
    {L_while, L_endwhile, Kw_endwhile, L_endwhile_helper, L_endforeach,
     L_comment, L_newline, L_open_paren, L_close_paren}

IfLines ==
    {L_if, L_elseif, L_else, L_endif, Kw_endif, L_endif_check, L_call,
     L_newline, L_if_elseif_body, L_else_elseif_body}

TextLines ==
    {L_open_double, L_close_double, L_begin_inline_rst, L_end_inline_rst,
     L_begin_rst, L_comment, L_stray_end_quoted, L_call, L_newline,
     L_comment_return, L_space_hash_quote, L_unit_hash_quote}

StringLines ==
    {L_call_open_double, L_close_open_double, L_close_double_call,
     L_inside_string, L_call_open_single, L_close_single_call,
     L_begin_closes_double, L_call_assign}

RSTLines ==
    {L_begin_rst, L_rst_comment, L_inline_rst_open, L_end_inline_rst,
     L_end_inline_rst_newline, L_newline, L_call_x, L_indented_call,
     L_comment_quote}

\* blocks within blocks
NestedLines ==
    {L_while_nested, L_endwhile_call, L_endwhile, L_if_endif, L_function,
     L_endfunction, L_call_x}

LineFamilies ==
    {FunctionLines, MacroLines, ForeachLines, WhileLines, IfLines, TextLines,
     StringLines, RSTLines, NestedLines}

\* the number of pieces of the longest script
MaxLines == 3

\* the scripts of at most n pieces of the family
RECURSIVE Scripts(_, _)
Scripts(family, n) ==
    IF n = 0 THEN {<<>>}
    ELSE LET shorter == Scripts(family, n - 1)
         IN  shorter \cup {s \o l : s \in shorter, l \in family}

Inputs == UNION {Scripts(family, MaxLines) : family \in LineFamilies}

\* the keys a caller of recurse passes callbacks under
CallbackKeys == Handlers \cup {"depth", "bogus"}

CallbackChoices ==
    {{}, Handlers, CallbackKeys} \cup {{k} : k \in CallbackKeys}

(***************************************************************************)
(* The state machine: parse(contents) step by step, then recurse on the    *)
(* tree it gave.                                                           *)
(***************************************************************************)
NoBody == [statements |-> <<>>, arguments |-> <<>>]

Init ==
    /\ contents \in Inputs
    /\ pc = "scan"
    /\ error = "none"
    /\ tokens = <<>>
    /\ tokens_len = 0
    /\ index = 0
    /\ recorder = NoRecorder
    /\ paren_count = 0
    /\ token_index = 0
    /\ body = NoBody
    /\ tree = NoneNode
    /\ callbacks = {}
    /\ calls = <<>>

\* the state of the loop of _compress_tokens
CompressState ==
    [tokens |-> tokens, tokens_len |-> tokens_len, index |-> index,
     recorder |-> recorder, paren_count |-> paren_count, err |-> "none"]

\* tokenize: tokens = _scan_for_tokens(contents), and the entry of
\* _compress_tokens
ScanForTokens ==
    /\ pc = "scan"
    /\ LET s == scan_for_tokens(contents)
       IN  IF s.err # "none"
           THEN /\ error' = s.err
                /\ pc' = "done"
                /\ UNCHANGED <<tokens, tokens_len>>
           ELSE /\ tokens' = s.tokens
                /\ tokens_len' = Len(s.tokens)
                /\ pc' = "compress"
                /\ UNCHANGED error
    /\ UNCHANGED <<contents, index, recorder, paren_count, token_index, body,
                   tree, callbacks, calls>>

\* the state after an iteration that gave st
CompressStepTo(st) ==
    IF st.err # "none"
    THEN /\ error' = ExitError(st.err, st.paren_count)
         /\ pc' = "done"
         /\ UNCHANGED <<tokens, tokens_len, index, recorder, paren_count>>
    ELSE /\ tokens' = st.tokens
         /\ tokens_len' = st.tokens_len
         /\ index' = st.index
         /\ recorder' = st.recorder
         /\ paren_count' = st.paren_count
         /\ UNCHANGED <<error, pc>>

\* one iteration of the while loop of _compress_tokens
CompressStep ==
    /\ pc = "compress"
    /\ index < tokens_len
    /\ CompressStepTo(compress_iteration(CompressState))
    /\ UNCHANGED <<contents, token_index, body, tree, callbacks, calls>>

\* the loop of _compress_tokens is over: the with block is left and
\* _compress_tokens returns
CompressExit ==
    /\ pc = "compress"
    /\ index >= tokens_len
    /\ error' = ExitError("none", paren_count)
    /\ pc' = IF error' # "none" THEN "done" ELSE "filter"
    /\ UNCHANGED <<contents, tokens, tokens_len, index, recorder, paren_count,
                   token_index, body, tree, callbacks, calls>>

\* tokenize drops the Whitespace tokens and returns
TokenizeReturn ==
    /\ pc = "filter"
    /\ tokens' = FilterWhitespace(tokens)
    /\ pc' = "parse"
    /\ UNCHANGED <<contents, error, tokens_len, index, recorder, paren_count,
                   token_index, body, tree, callbacks, calls>>

\* parse: _ast_worker on the tokens, and the two assertions
Parse ==
    /\ pc = "parse"
    /\ LET r == ParseTokens(tokens)
       IN  /\ error' = r.err
           /\ token_index' = r.token_index
           /\ body' = r.body
           /\ tree' = r.tree
           /\ pc' = IF r.err # "none" THEN "done" ELSE "recurse"
    /\ UNCHANGED <<contents, tokens, tokens_len, index, recorder, paren_count,
                   callbacks, calls>>

\* recurse(tree, **callbacks)
Recurse ==
    /\ pc = "recurse"
    /\ \E registered \in CallbackChoices :
          /\ callbacks' = registered
          /\ calls' = recurse(tree, registered)
    /\ pc' = "done"
    /\ UNCHANGED <<contents, error, tokens, tokens_len, index, recorder,
                   paren_count, token_index, body, tree>>

Next ==
    \/ ScanForTokens
    \/ CompressStep
    \/ CompressExit
    \/ TokenizeReturn
    \/ Parse
    \/ Recurse

Spec == Init /\ [][Next]_vars

(***************************************************************************)
(* The properties of the tokens, of the tree and of the visit.             *)
(***************************************************************************)
FooterKinds ==
    {"FunctionDefinition", "MacroDefinition", "ForeachStatement",
     "WhileStatement"}

ClauseKinds == {"IfStatement", "ElseIfStatement", "ElseStatement"}

\* the nodes held in the fields of a node
Children(node) ==
    CASE node.kind = "ToplevelBody" -> node.statements
      [] node.kind = "FunctionCall" -> node.arguments
      [] node.kind \in FooterKinds ->
             <<node.header>> \o node.body \o <<node.footer>>
      [] node.kind \in ClauseKinds -> <<node.header>> \o node.body
      [] node.kind = "IfBlock" ->
             <<node.if_statement>> \o node.elseif_statements
             \o (IF node.else_statement.kind = "NoneType" THEN <<>>
                 ELSE <<node.else_statement>>)
             \o <<node.footer>>
      [] OTHER -> <<>>

\* the nodes of the tree under node, each with its distance from the root
\* when node is d away from it
RECURSIVE NodesAt(_, _)
NodesAt(node, d) ==
    {[node |-> node, depth |-> d]}
    \cup UNION {NodesAt(Children(node)[i], d + 1) : i \in DOMAIN Children(node)}

Nodes(node) == {nd.node : nd \in NodesAt(node, 0)}

ParseReturned == tree.kind = "ToplevelBody"

\* the token kinds that only live between the scanner and the compressor
TransientTypes ==
    {"Whitespace", "BeginDoubleQuotedLiteral", "EndDoubleQuotedLiteral",
     "BeginSingleQuotedLiteral", "EndSingleQuotedLiteral", "BeginRSTComment",
     "BeginInlineRST", "EndInlineRST"}

\* C1: when tokenize returns, no token of the returned sequence has a
\* transient kind, also when a multi-line string or an inline RST block was
\* opened and never closed.
C1_NoTransientTokens ==
    pc = "parse" =>
        \A i \in DOMAIN tokens : tokens[i].type \notin TransientTypes

\* tokenize has returned the opening of a string that was never closed
C1_UnclosedStringReturned ==
    /\ pc = "parse"
    /\ contents = L_open_double
    /\ tokens[1].type = "BeginDoubleQuotedLiteral"

\* C2: whenever parse returns a ToplevelBody, the cursor of the top-level
\* collector equals the length of the compressed token list and the
\* top-level collector gathered no arguments.
C2_CursorAtEndNoArguments ==
    ParseReturned => token_index = Len(tokens) /\ body.arguments = <<>>

C2_ParsedStatements ==
    /\ ParseReturned
    /\ tree.statements # <<>>
    /\ token_index = Len(tokens)

\* the language-defined terminator of each kind of block with a footer
BlockTerminator(kind) ==
    CASE kind = "FunctionDefinition" -> Kw_endfunction
      [] kind = "MacroDefinition" -> Kw_endmacro
      [] kind = "ForeachStatement" -> Kw_endforeach
      [] kind = "WhileStatement" -> Kw_endwhile

\* C3: in every tree that parse returns, the footer of each
\* FunctionDefinition, MacroDefinition, ForeachStatement and WhileStatement
\* is a FunctionCall named exactly the terminator of its kind.
C3_FooterIsTerminator ==
    \A n \in Nodes(tree) :
        n.kind \in FooterKinds =>
            /\ n.footer.kind = "FunctionCall"
            /\ n.footer.name = BlockTerminator(n.kind)

\* a FunctionDefinition was returned whose footer is a longer name
C3_LongerFooterReturned ==
    /\ contents = L_function \o L_endfunction_helper
    /\ ParseReturned
    /\ tree.statements[1].kind = "FunctionDefinition"
    /\ tree.statements[1].footer.name # Kw_endfunction

\* C4: every IfBlock of a tree that parse returns has one if_statement, a
\* list of elseif_statements, at most one else_statement, and one footer
\* that is a FunctionCall named exactly endif.
C4_IfBlockShape ==
    \A n \in Nodes(tree) :
        n.kind = "IfBlock" =>
            /\ n.if_statement.kind = "IfStatement"
            /\ \A i \in DOMAIN n.elseif_statements :
                   n.elseif_statements[i].kind = "ElseIfStatement"
            /\ n.else_statement.kind \in {"NoneType", "ElseStatement"}
            /\ n.footer.kind = "FunctionCall"
            /\ n.footer.name = Kw_endif

C4_IfBlockWithElse ==
    \E n \in Nodes(tree) :
        /\ n.kind = "IfBlock"
        /\ n.else_statement.kind = "ElseStatement"
        /\ n.footer.name = Kw_endif

\* the table of word types by token kind
WordTypeTable ==
    [QuotedLiteral |-> "String", Number |-> "Number",
     Deref |-> "VariableDereference", Word |-> "Variable",
     UnquotedLiteral |-> "CompoundLiteral"]

\* the Word nodes the parser has produced, in the tree and among the
\* arguments of the top-level collector
WordNodes ==
    {n \in Nodes(tree) : n.kind = "Word"}
    \cup {body.arguments[i] : i \in DOMAIN body.arguments}

\* C5: every Word node that the parser produced has the type the table
\* gives for the kind of its token and that token's content, line, column
\* and index; tokens of other kinds produce no Word node.
C5_WordFromToken ==
    \A n \in WordNodes :
        /\ n.index \in 0..(Len(tokens) - 1)
        /\ LET t == At(tokens, n.index)
           IN  /\ t.type \in DOMAIN WordTypeTable
               /\ n = [kind |-> "Word", type |-> WordTypeTable[t.type],
                       contents |-> t.content, line |-> t.line,
                       col |-> t.col, index |-> n.index]

C5_AllWordTypes ==
    /\ ParseReturned
    /\ \A ty \in {"String", "Number", "VariableDereference", "Variable",
                  "CompoundLiteral"} :
           \E n \in WordNodes : n.type = ty

\* the arguments of every FunctionCall of the tree are Word nodes
OnlyWordArguments ==
    \A n \in Nodes(tree) :
        n.kind = "FunctionCall" =>
            \A i \in DOMAIN n.arguments : n.arguments[i].kind = "Word"

\* the one statement that f ( ( ABC ) ) parses to is a FunctionCall of three
\* words with the contents (, ABC, ) and the types given
NestedParensParse(types) ==
    (contents = L_nested_parens /\ pc \in {"recurse", "done"}) =>
        /\ ParseReturned
        /\ Len(tree.statements) = 1
        /\ tree.statements[1].kind = "FunctionCall"
        /\ tree.statements[1].name = <<"f">>
        /\ Len(tree.statements[1].arguments) = 3
        /\ \A i \in 1..3 :
               /\ tree.statements[1].arguments[i].kind = "Word"
               /\ tree.statements[1].arguments[i].type = types[i]
               /\ tree.statements[1].arguments[i].contents =
                      <<<<"(">>, <<"A", "B", "C">>, <<")">>>>[i]

\* C6: a FunctionCall's arguments are Word nodes only, and f ( ( ABC ) )
\* parses to one FunctionCall of three CompoundLiteral words with the
\* contents (, ABC, ).
C6_ThreeCompoundLiterals ==
    /\ OnlyWordArguments
    /\ NestedParensParse(<<"CompoundLiteral", "CompoundLiteral",
                           "CompoundLiteral">>)

\* C6 as the code has it: a FunctionCall's arguments are Word nodes only,
\* every word that is a parenthesis is a CompoundLiteral, and f ( ( ABC ) )
\* parses to one FunctionCall of three words with the contents (, ABC, ),
\* the parentheses CompoundLiteral and ABC a Variable.
C6_ParensCompoundLiteralWordVariable ==
    /\ OnlyWordArguments
    /\ \A n \in WordNodes :
           n.contents \in {<<"(">>, <<")">>} => n.type = "CompoundLiteral"
    /\ NestedParensParse(<<"CompoundLiteral", "Variable", "CompoundLiteral">>)

C6_NestedParensParsed ==
    /\ contents = L_nested_parens
    /\ ParseReturned
    /\ Len(tree.statements[1].arguments) = 3

\* the header of a block of each kind and its terminator
BlockKeywords ==
    {<<L_function, Kw_endfunction>>, <<L_macro, Kw_endmacro>>,
     <<L_foreach, Kw_endforeach>>, <<L_while, Kw_endwhile>>,
     <<L_if, Kw_endif>>}

\* a block whose terminator is written without parentheses, at the end of
\* the text or before a newline
BareTerminatorScripts ==
    {b[1] \o b[2] \o rest : b \in BlockKeywords, rest \in {<<>>, L_newline}}

\* C7: for every kind of block, parse fails with "Syntax Error" and returns
\* no tree when the terminator is written without a parenthesis, whether it
\* is the last token or further tokens follow.
C7_BareTerminatorSyntaxError ==
    (contents \in BareTerminatorScripts /\ pc = "done") =>
        error = "Syntax Error" /\ tree.kind = "NoneType"

\* parse has left a bare terminator before a newline with another error
C7_BareTerminatorOtherError ==
    /\ contents = L_function \o Kw_endfunction \o L_newline
    /\ pc = "done"
    /\ error = "IndexError"

\* an if block that the text ends in: no endif follows the if body, the
\* elseif or else headers or their bodies
UnterminatedIfScripts ==
    {L_if \o rest :
        rest \in Scripts({L_elseif, L_else, L_call, L_newline}, MaxLines - 1)}

\* C8: when the tokens end before the endif of an open if block, parse
\* fails with "Syntax Error".
C8_UnterminatedIfSyntaxError ==
    (contents \in UnterminatedIfScripts /\ pc = "done") =>
        error = "Syntax Error"

\* parse has left an if block without endif with another error
C8_UnterminatedIfOtherError ==
    /\ contents = L_if \o L_else
    /\ pc = "done"
    /\ error = "IndexError"

\* C9: recurse invokes the callbacks with depth 0 for the root and, for
\* every other node, with the depth of its parent plus 1, whatever was
\* visited before it.
C9_DepthIsDistanceFromRoot ==
    LET expected == NodesAt(tree, 0)
    IN  \A i \in DOMAIN calls :
            [node |-> calls[i].node, depth |-> calls[i].depth] \in expected

\* a visit that came back from depth 3 to a later statement at depth 1
C9_DeepThenShallow ==
    /\ pc = "done"
    /\ \E i, j \in DOMAIN calls :
           /\ i < j
           /\ calls[1].depth = 0
           /\ calls[i].depth = 3
           /\ calls[j].depth = 1
           /\ calls[j].node.kind = "FunctionCall"

\* the key of each kind of node in the schema
KeyOfKind ==
    [ToplevelBody |-> "toplevel", WhileStatement |-> "while_stmnt",
     ForeachStatement |-> "foreach", FunctionDefinition |-> "function_def",
     MacroDefinition |-> "macro_def", IfBlock |-> "if_block",
     IfStatement |-> "if_stmnt", ElseIfStatement |-> "elseif_stmnt",
     ElseStatement |-> "else_stmnt", FunctionCall |-> "function_call",
     Word |-> "word"]

\* C10: the callback registered under a key is invoked exactly once for
\* each node of the tree whose kind maps to the key, with the name of the
\* node's kind, and for no other node; kinds without a callback, absent
\* children and unknown keys bring no invocation.
C10_OncePerNodeOfKind ==
    (pc = "done" /\ ParseReturned) =>
        LET nodes == Nodes(tree)
        IN  /\ \A i \in DOMAIN calls :
                   /\ calls[i].node \in nodes
                   /\ calls[i].key \in callbacks
                   /\ calls[i].key = KeyOfKind[calls[i].node.kind]
                   /\ calls[i].name = calls[i].node.kind
            /\ \A n \in nodes :
                   KeyOfKind[n.kind] \in callbacks =>
                       Cardinality({i \in DOMAIN calls : calls[i].node = n})
                           = 1

\* a visit with every key registered, and unknown ones, of a tree with an
\* IfBlock that has no else_statement
C10_VisitedIfBlockWithoutElse ==
    /\ pc = "done"
    /\ callbacks = CallbackKeys
    /\ \E i \in DOMAIN calls :
           /\ calls[i].node.kind = "IfBlock"
           /\ calls[i].node.else_statement.kind = "NoneType"
    /\ \E i \in DOMAIN calls : calls[i].key = "word"

\* the contents of the tokens of a list, joined in order
RECURSIVE JoinContents(_)
JoinContents(toks) ==
    IF toks = <<>> THEN <<>> ELSE Head(toks).content \o JoinContents(Tail(toks))

\* the compressor is about to look at tokens[index] while it records a
\* multi-line string
InMultilineString ==
    pc = "compress" /\ index < tokens_len /\ recorder.kind = "MultilineString"

\* the end-quoted token of the flavor of the string closes it: the tokens from
\* the opening one to the closing one become one QuotedLiteral at the place
\* of the opening one, and the loop goes on after it
StringClosedAt(opening, closing) ==
    /\ pc' = "compress"
    /\ recorder' = NoRecorder
    /\ index' = opening
    /\ tokens_len' = Len(tokens')
    /\ tokens' = SubSeq(tokens, 1, opening - 1)
                 \o << [type |-> "QuotedLiteral",
                        content |-> JoinContents(SubSeq(tokens, opening,
                                                        closing)),
                        line |-> tokens[opening].line,
                        col |-> tokens[opening].col] >>
                 \o SubSeq(tokens, closing + 1, Len(tokens))

\* a token that does not close the string is left where it is
StringGoesOn ==
    /\ pc' = "compress"
    /\ recorder' = recorder
    /\ index' = index + 1
    /\ UNCHANGED <<tokens, tokens_len>>

MultilineStringStep ==
    InMultilineString =>
        LET t == tokens[index + 1]
        IN  IF t.type = EndLiteralType(recorder.quote_type)
            THEN StringClosedAt(recorder.begin + 1, index + 1)
            ELSE IF t.type # BeginLiteralType(recorder.quote_type)
                    \/ index = recorder.begin
            THEN StringGoesOn
            ELSE TRUE

\* f ("a\nb" "c\nd")\n
TwoStringsScript ==
    L_call_open_double \o L_close_open_double \o L_close_double_call

\* f ("a\nq' ( # 'r\nd")\n
FullStringScript ==
    L_call_open_double \o L_inside_string \o L_close_double_call

\* the String words that are the arguments of the only call of the tree, as
\* the pairs of their contents and lines
RECURSIVE StringWords(_)
StringWords(arguments) ==
    IF arguments = <<>> THEN <<>>
    ELSE << <<Head(arguments).type, Head(arguments).contents,
              Head(arguments).line, Head(arguments).col>> >>
         \o StringWords(Tail(arguments))

TwoStringsParsed ==
    /\ (contents = TwoStringsScript /\ pc \in {"recurse", "done"}) =>
           /\ ParseReturned
           /\ Len(tree.statements) = 1
           /\ StringWords(tree.statements[1].arguments)
              = << <<"String", <<"\"", "a", "\n", "b", "\"">>, 1, 4>>,
                   <<"String", <<"\"", "c", "\n", "d", "\"">>, 2, 4>> >>
    /\ (contents = FullStringScript /\ pc \in {"recurse", "done"}) =>
           /\ ParseReturned
           /\ Len(tree.statements) = 1
           /\ StringWords(tree.statements[1].arguments)
              = << <<"String",
                     SubSeq(L_call_open_double, 4, 6) \o L_inside_string
                     \o SubSeq(L_close_double_call, 1, 2), 1, 4>> >>

\* the token s stands after the token t in the source
StandsAfter(s, t) == s.line > t.line \/ (s.line = t.line /\ s.col > t.col)

\* the scanner gave an end-quoted token of the flavor of the begin-quoted
\* token t after it
ClosedInSource(scanned, t) ==
    \E k \in DOMAIN scanned :
        /\ scanned[k].type
           = (IF t.type = "BeginSingleQuotedLiteral"
              THEN "EndSingleQuotedLiteral" ELSE "EndDoubleQuotedLiteral")
        /\ StandsAfter(scanned[k], t)

BeginQuotedTypes == {"BeginSingleQuotedLiteral", "BeginDoubleQuotedLiteral"}

\* the first begin-quoted token that tokenize returns, if there is one,
\* opens a string that nothing closes: a begin-quoted token inside a comment,
\* an RST region or an earlier string is part of that token's range, so the
\* first one left over opens a string, and a string that is closed is fused
LeftOpenNeverClosed(scanned) ==
    \A k \in DOMAIN tokens :
        (/\ tokens[k].type \in BeginQuotedTypes
         /\ \A j \in 1..(k - 1) : tokens[j].type \notin BeginQuotedTypes)
        => ~ClosedInSource(scanned, tokens[k])

EveryClosedStringFused ==
    pc = "parse" => LeftOpenNeverClosed(scan_for_tokens(contents).tokens)

\* C11: a multi-line string, from its begin-quoted token to the next
\* end-quoted token of the same flavor, becomes exactly one QuotedLiteral
\* whose content is the contents of the tokens of the range in order and
\* whose line and column are those of the opening token; quotes of the other
\* flavor, parentheses and # inside the range do not close it; two
\* multi-line strings next to each other in one call give two String words,
\* each with its own text; no begin-quoted token that an end-quoted token of
\* its flavor follows is returned unfused.
C11_MultilineStringFused ==
    /\ [](TwoStringsParsed)
    /\ [][MultilineStringStep]_vars
    /\ [](EveryClosedStringFused)

\* #.rst:\n"a\nb"\n
StringAfterRSTScript == L_begin_rst \o L_open_double \o L_close_double

C11_StringAfterRSTLeftOpen ==
    /\ contents = StringAfterRSTScript
    /\ pc = "parse"
    /\ [k \in DOMAIN tokens |-> tokens[k].type]
       = <<"RST", "BeginDoubleQuotedLiteral", "UnquotedLiteral", "Newline">>
    /\ tokens[2].content = L_open_double

\* the RST regions: the block form of one line and of two, the inline form
\* ending the stream and the inline form followed by a newline
RSTRegions ==
    {L_begin_rst, L_begin_rst \o L_rst_comment,
     L_inline_rst_open \o L_end_inline_rst,
     L_inline_rst_open \o L_end_inline_rst_newline}

\* what follows a region: nothing, a call on the next line, an indented call
RSTFollowers == {<<>>, L_call_x, L_indented_call}

RSTRegionScript(region, code) ==
    /\ contents = region \o code
    /\ code # <<>> => region[Len(region)] = "\n"

\* the first n tokens are RST tokens, the k-th holding the k-th line, and no
\* later token is one
RSTTokenPerLine(lines, n) ==
    /\ Len(tokens) >= n
    /\ \A k \in 1..n :
           /\ tokens[k].type = "RST"
           /\ tokens[k].content = lines[k]
           /\ tokens[k].line = k
    /\ \A k \in (n + 1)..Len(tokens) :
           /\ tokens[k].type # "RST"
           /\ tokens[k].line = n + 1

\* the call that follows a region of n lines is the only statement
CallAfterRST(n) ==
    /\ ParseReturned
    /\ Len(tree.statements) = 1
    /\ tree.statements[1].kind = "FunctionCall"
    /\ tree.statements[1].line = n + 1

\* C12: an RST region of N source lines, in the block form or in the inline
\* form, is replaced by exactly N RST tokens, one for each line with that
\* line's number and text, whether the region ends the stream, is followed by
\* a newline or is followed by code; the call on the next line, indented or
\* not, is not taken into an RST token and is parsed as a FunctionCall with
\* its own line number.
C12_RSTTokenPerLine ==
    \A region \in RSTRegions, code \in RSTFollowers :
        (RSTRegionScript(region, code) /\ pc = "done") =>
            /\ error = "none"
            /\ RSTTokenPerLine(SplitLines(region, <<>>),
                               Len(SplitLines(region, <<>>)))
            /\ code # <<>> =>
                   CallAfterRST(Len(SplitLines(region, <<>>)))

\* the inline region followed by a newline, and the block region followed
\* by an indented call, end in the assertion of the line-by-line paste
C12_RSTRegionAssertion ==
    /\ pc = "done"
    /\ error = "AssertionError"
    /\ \/ contents = L_inline_rst_open \o L_end_inline_rst_newline
       \/ contents = L_begin_rst \o L_rst_comment \o L_indented_call

\* comment lines
CommentLines == {L_rst_comment, L_comment_quote, L_comment}

\* one comment line, or two
CommentLineSeqs ==
    {<<c>> : c \in CommentLines}
    \cup {<<c, d>> : c \in CommentLines, d \in CommentLines}

\* what comes before the comment lines: nothing, a call, or an inline RST
\* block
CommentPrefixes ==
    {<<>>, L_call_x, L_inline_rst_open \o L_end_inline_rst_newline}

RECURSIVE Flatten(_)
Flatten(lines) ==
    IF lines = <<>> THEN <<>> ELSE Head(lines) \o Flatten(Tail(lines))

\* the tokens of a list that are on a line after line p
RECURSIVE TokensAfterLine(_, _)
TokensAfterLine(toks, p) ==
    IF toks = <<>> THEN <<>>
    ELSE (IF Head(toks).line > p THEN <<Head(toks)>> ELSE <<>>)
         \o TokensAfterLine(Tail(toks), p)

\* one Comment token for each comment line, holding the whole line
CommentTokenPerLine(lines, p) ==
    TokensAfterLine(tokens, p)
    = [k \in 1..Len(lines) |->
         [type |-> "Comment", content |-> lines[k], line |-> p + k,
          col |-> 1]]

\* C13: a comment start outside a multi-line string and outside an RST
\* region is fused with all the following tokens of its source line into
\* exactly one Comment token, so that comment lines tokenize to Comment and
\* Newline tokens only and no word, quote or parenthesis written in a
\* comment survives as a token of its own, also on a comment line that
\* directly follows an RST block.
C13_CommentLinesFused ==
    \A prefix \in CommentPrefixes, lines \in CommentLineSeqs :
        (contents = prefix \o Flatten(lines) /\ pc = "parse") =>
            CommentTokenPerLine(lines, Len(SplitLines(prefix, <<>>)))

\* tokenize has returned a Word of the comment line that follows the inline
\* RST block
C13_WordOfCommentAfterRST ==
    /\ contents = L_inline_rst_open \o L_end_inline_rst_newline
                  \o L_rst_comment
    /\ pc = "parse"
    /\ \E k \in DOMAIN tokens :
           /\ tokens[k].line = 4
           /\ tokens[k].type = "Word"

\* the compressor has not begun: tokens is what the scanner emitted
ScannerReturned == pc = "compress" /\ index = 0

\* the first token of each line is at column 1 and each later token of the
\* line is at the column of the token before it plus that token's length
ScannerColumns ==
    \A k \in DOMAIN tokens :
        IF k > 1 /\ tokens[k - 1].line = tokens[k].line
        THEN tokens[k].col = tokens[k - 1].col + Len(tokens[k - 1].content)
        ELSE tokens[k].col = 1

\* the nodes of the tree that have a place: all but the ToplevelBody
PlacedNodes == {n \in Nodes(tree) : n.kind # "ToplevelBody"}

\* C14: every token that tokenize returns and every node of a tree that
\* parse returns has line >= 1 and column >= 1; the first token the scanner
\* emits for a source line has column 1, and each later token of the line
\* is at the column of the token before it plus the length of that token.
C14_LinesAndColumnsFromOne ==
    /\ ScannerReturned => ScannerColumns
    /\ pc = "parse" =>
           \A k \in DOMAIN tokens : tokens[k].line >= 1 /\ tokens[k].col >= 1
    /\ ParseReturned =>
           \A n \in PlacedNodes : n.line >= 1 /\ n.col >= 1

\* a tree with a block in it was returned for a script of several lines
\* whose tokens the scanner placed
C14_PlacedBlockReturned ==
    /\ ParseReturned
    /\ \E n \in PlacedNodes : n.kind \in FooterKinds /\ n.footer.line > 1
    /\ \E k \in DOMAIN tokens : tokens[k].col > 1 /\ tokens[k].line > 1

\* the kinds of the statement nodes
BlockKinds == FooterKinds \cup ClauseKinds \cup {"IfBlock"}

\* the call whose name token starts a statement node
StartingCall(n) ==
    CASE n.kind = "FunctionCall" -> n
      [] n.kind = "IfBlock" -> n.if_statement.header
      [] OTHER -> n.header

\* the index of the first token of a statement node: the token of the name
\* of the call that starts it
FirstTokenIndex(n) ==
    CHOOSE k \in 0..(Len(tokens) - 1) :
        /\ tokens[k + 1].content = StartingCall(n).name
        /\ tokens[k + 1].line = StartingCall(n).line
        /\ tokens[k + 1].col = StartingCall(n).col

PlacedAtFirstToken(n) ==
    /\ n.index = FirstTokenIndex(n)
    /\ n.line = tokens[FirstTokenIndex(n) + 1].line
    /\ n.col = tokens[FirstTokenIndex(n) + 1].col

\* C15: for every statement node that parse returns, a FunctionCall as well
\* as a block node, the index of the node is the place in the compressed
\* tokens of the first token of the node, the token of the name or keyword
\* that starts it, and the line and column of the node are those of that
\* token.
C15_NodeAtFirstToken ==
    ParseReturned =>
        \A n \in Nodes(tree) :
            n.kind \in BlockKinds \cup {"FunctionCall"} =>
                PlacedAtFirstToken(n)

\* a function definition whose index is that of the parenthesis closing its
\* header
C15_DefinitionAtHeaderEnd ==
    /\ ParseReturned
    /\ \E n \in Nodes(tree) :
           /\ n.kind = "FunctionDefinition"
           /\ n.index > n.header.index
           /\ tokens[n.index + 1].type = "RightParen"

\* the compressor is at the end of the stream with parentheses that do not
\* balance
UnbalancedAtEnd ==
    pc = "compress" /\ index >= tokens_len /\ paren_count # 0

\* C16: unbalanced parentheses are tolerated by the compressor: when the
\* depth of the parentheses is not zero at the end of the stream, after an
\* unclosed ( as in f ( or after a surplus ), tokenize does not raise and
\* goes on to return the compressed tokens.
C16_UnbalancedParensTolerated ==
    [][UnbalancedAtEnd => (pc' = "filter" /\ error' = "none")]_vars

\* tokenize raised AssertionError on a call that is never closed
C16_UnclosedParenAssertion ==
    /\ contents = L_open_paren
    /\ pc = "done"
    /\ error = "AssertionError"
    /\ index = tokens_len
    /\ paren_count = 1

\* the compressor is about to look at an end-quoted token while no recorder
\* is active
AtStrayEndQuoted ==
    /\ pc = "compress"
    /\ index < tokens_len
    /\ recorder = NoRecorder
    /\ tokens[index + 1].type
       \in {"EndSingleQuotedLiteral", "EndDoubleQuotedLiteral"}

\* the token becomes an UnquotedLiteral where it is and nothing else moves
StrayEndQuotedRewritten ==
    /\ pc' = "compress"
    /\ recorder' = NoRecorder
    /\ index' = index + 1
    /\ tokens_len' = tokens_len
    /\ Len(tokens') = Len(tokens)
    /\ \A k \in DOMAIN tokens :
           tokens'[k] = IF k = index + 1
                        THEN [type |-> "UnquotedLiteral",
                              content |-> tokens[k].content,
                              line |-> tokens[k].line, col |-> tokens[k].col]
                        ELSE tokens[k]

\* f (ARG="BAR")\n parses to a call with the one CompoundLiteral ARG="BAR"
AssignmentParsed ==
    (contents = L_call_assign /\ pc \in {"recurse", "done"}) =>
        /\ ParseReturned
        /\ Len(tree.statements) = 1
        /\ StringWords(tree.statements[1].arguments)
           = << <<"CompoundLiteral", SubSeq(L_call_assign, 4, 12), 1, 4>> >>

\* C17: an end-quoted token of either flavor met while no recorder is active
\* is rewritten in place to an UnquotedLiteral with the same content, line
\* and column; the length and the order of the token list do not change;
\* the token then parses as one CompoundLiteral word, as ARG="BAR" does.
C17_StrayEndQuotedRewritten ==
    [](AssignmentParsed) /\ [][AtStrayEndQuoted => StrayEndQuotedRewritten]_vars

\* a content without the whitespace it begins with
LeftStripped(content) ==
    SubSeq(content, RunEnd(content, 1, StripChars), Len(content))

\* the content of the end-quoted token, once the whitespace it begins with
\* is taken away, begins with #
BeginsWithHash ==
    /\ LeftStripped(tokens[index + 1].content) # <<>>
    /\ Head(LeftStripped(tokens[index + 1].content)) = "#"

\* the token starts a comment: alone when it is the last token, else with
\* the tokens that follow, the token list staying as it is for now
StrayEndQuotedStartsComment ==
    /\ pc' = "compress"
    /\ index' = index + 1
    /\ tokens_len' = tokens_len
    /\ IF index = tokens_len - 1
       THEN /\ recorder' = NoRecorder
            /\ tokens' = [tokens EXCEPT ![index + 1].type = "Comment"]
       ELSE /\ recorder'.kind = "CommentedLine"
            /\ recorder'.begin = index
            /\ tokens' = tokens

\* the compressor is about to look at a token while it records a comment
InCommentedLine ==
    pc = "compress" /\ index < tokens_len /\ recorder.kind = "CommentedLine"

\* the tokens from opening to closing are all the tokens from the opening one
\* on that are on its line, and they become one Comment token at the place,
\* line and column of the opening one
CommentClosedAt(opening, closing) ==
    /\ \A k \in opening..closing : tokens[k].line = tokens[opening].line
    /\ closing < Len(tokens) => tokens[closing + 1].line > tokens[opening].line
    /\ pc' = "compress"
    /\ recorder' = NoRecorder
    /\ index' = opening
    /\ tokens_len' = Len(tokens')
    /\ tokens' = SubSeq(tokens, 1, opening - 1)
                 \o << [type |-> "Comment",
                        content |-> JoinContents(SubSeq(tokens, opening,
                                                        closing)),
                        line |-> tokens[opening].line,
                        col |-> tokens[opening].col] >>
                 \o SubSeq(tokens, closing + 1, Len(tokens))

\* a comment that is being recorded either goes on or is closed
CommentedLineStep ==
    InCommentedLine =>
        \/ /\ pc' = "compress"
           /\ recorder' = recorder
           /\ index' = index + 1
           /\ UNCHANGED <<tokens, tokens_len>>
        \/ \E closing \in (recorder.begin + 1)..Len(tokens) :
               CommentClosedAt(recorder.begin + 1, closing)

\* <U+00A0>#" y\n is one Comment token, and so is <U+001F>#"
SpaceHashQuoteFused ==
    (contents \in {L_space_hash_quote, L_unit_hash_quote} /\ pc = "parse") =>
        tokens = << [type |-> "Comment", content |-> contents,
                     line |-> 1, col |-> 1] >>

\* C17 as the code has it: an end-quoted token of either flavor that is met
\* while no recorder is active and whose content does not begin with #
\* after its leading whitespace is rewritten in place to an UnquotedLiteral
\* with the same content, line and column; the length and the order of the
\* token list do not change; the token then parses as one CompoundLiteral
\* word, as ARG="BAR" does.  An end-quoted token whose content begins with #
\* after its leading whitespace starts a comment instead and is fused with
\* the tokens after it on its line into one Comment token at its place.
C17_StrayEndQuotedOutsideCommentRewritten ==
    /\ [](AssignmentParsed)
    /\ [](SpaceHashQuoteFused)
    /\ [][(AtStrayEndQuoted /\ ~BeginsWithHash)
            => StrayEndQuotedRewritten]_vars
    /\ [][(AtStrayEndQuoted /\ BeginsWithHash)
            => StrayEndQuotedStartsComment]_vars
    /\ [][CommentedLineStep]_vars

C17_AssignmentArgument ==
    /\ contents = L_call_assign
    /\ pc = "recurse"
    /\ \E k \in DOMAIN tokens :
           /\ tokens[k].type = "UnquotedLiteral"
           /\ tokens[k].content = SubSeq(L_call_assign, 4, 12)

\* the kinds and contents of the tokens of a list
KindsAndContents(toks) ==
    [k \in DOMAIN toks |-> <<toks[k].type, toks[k].content>>]

\* tokenizing again the text that the returned tokens spell gives the same
\* kinds and contents
SameWhenTokenizedAgain(again) ==
    /\ again.err = "none"
    /\ KindsAndContents(again.tokens) = KindsAndContents(tokens)

\* C18: tokenization is idempotent: whenever tokenize succeeds on x, joining
\* the contents of tokenize(x) in order and tokenizing the result gives the
\* same sequence of tokens, by kind and content, as tokenize(x).
C18_TokenizeIdempotent ==
    pc = "parse" => SameWhenTokenizedAgain(tokenize(JoinContents(tokens)))

\* the call g (x 1 "s" ${v} a/b) has been tokenized, and its arguments run
\* together once the whitespace between them is gone
C18_ArgumentsRunTogether ==
    /\ contents = L_call
    /\ pc = "parse"
    /\ Len(tokens) = 9
    /\ Len(tokenize(JoinContents(tokens)).tokens) < 9

\* the blocks nested in a node
NestedBlocks(n) ==
    {m \in Nodes(n) : m # n /\ m.kind \in FooterKinds \cup {"IfBlock"}}

\* the indices of the elseif tokens that begin a clause of the if-block n:
\* those between its if and its endif that are followed by a parenthesis and
\* are not within a block nested in n
ElseIfTokens(n) ==
    {k \in 0..(Len(tokens) - 2) :
        /\ n.if_statement.header.index < k
        /\ k < n.footer.index
        /\ tokens[k + 1].content = <<"e", "l", "s", "e", "i", "f">>
        /\ tokens[k + 2].type = "LeftParen"
        /\ \A m \in NestedBlocks(n) :
               ~(StartingCall(m).index < k /\ k < m.footer.index)}

\* where the clauses of the if-block n begin, and its endif
ClauseStarts(n) ==
    ElseIfTokens(n) \cup {n.footer.index}
    \cup (IF n.else_statement.kind = "NoneType" THEN {}
          ELSE {n.else_statement.header.index})

\* the statements of the body of the clause c lie between its header and the
\* next clause of the block
OwnBody(n, c) ==
    \A s \in DOMAIN c.body :
        /\ c.header.index < StartingCall(c.body[s]).index
        /\ \A k \in ClauseStarts(n) :
               k > c.header.index => StartingCall(c.body[s]).index < k

ElseIfClausesInOrder(n) ==
    /\ Len(n.elseif_statements) = Cardinality(ElseIfTokens(n))
    /\ \A i \in DOMAIN n.elseif_statements :
           /\ n.elseif_statements[i].kind = "ElseIfStatement"
           /\ n.elseif_statements[i].header.kind = "FunctionCall"
           /\ n.elseif_statements[i].header.index \in ElseIfTokens(n)
           /\ OwnBody(n, n.elseif_statements[i])
    /\ \A i, j \in DOMAIN n.elseif_statements :
           i < j => n.elseif_statements[i].header.index
                    < n.elseif_statements[j].header.index

\* if (A)\nelseif (B)\nb ()\nelse ()\nelseif (C)\nc ()\nendif ()\n
ElseIfAfterElseScript == L_if_elseif_body \o L_else_elseif_body \o L_endif

\* the names of the calls of a list of statements
CallNames(statements) == [s \in DOMAIN statements |-> statements[s].name]

\* both elseif clauses of the script are kept, each with its body
ElseIfAfterElseParsed ==
    (contents = ElseIfAfterElseScript /\ pc \in {"recurse", "done"}) =>
        /\ ParseReturned
        /\ Len(tree.statements) = 1
        /\ tree.statements[1].kind = "IfBlock"
        /\ Len(tree.statements[1].elseif_statements) = 2
        /\ tree.statements[1].else_statement.kind = "ElseStatement"
        /\ CallNames(tree.statements[1].elseif_statements[1].body) = << <<"b">> >>
        /\ CallNames(tree.statements[1].elseif_statements[2].body) = << <<"c">> >>

\* C19: in an if-block every elseif clause met before the endif is appended
\* to elseif_statements as an ElseIfStatement with its own header call and
\* body, and elseif_statements lists the clauses in source order; an elseif
\* that comes after an else is accepted and appended in the same way.
C19_ElseIfClausesInSourceOrder ==
    /\ ElseIfAfterElseParsed
    /\ ParseReturned =>
           \A n \in Nodes(tree) : n.kind = "IfBlock" => ElseIfClausesInOrder(n)

\* an if-block with two elseif clauses, the second after the else
C19_ElseIfAfterElse ==
    /\ ParseReturned
    /\ \E n \in Nodes(tree) :
           /\ n.kind = "IfBlock"
           /\ Len(n.elseif_statements) = 2
           /\ n.else_statement.kind = "ElseStatement"
           /\ n.elseif_statements[2].header.index
              > n.else_statement.header.index

\* the compressor is about to look at a parenthesis of the given kind while
\* no recorder is active
AtParen(type) ==
    /\ pc = "compress"
    /\ index < tokens_len
    /\ recorder = NoRecorder
    /\ tokens[index + 1].type = type

\* the step rewrites the parenthesis to an UnquotedLiteral exactly when the
\* depth at the check is above 1, and leaves the counter at after
ParenStep(depth_at_check, after) ==
    /\ pc' = "compress"
    /\ paren_count' = after
    /\ index' = index + 1
    /\ tokens' = IF depth_at_check > 1
                 THEN [tokens EXCEPT ![index + 1].type = "UnquotedLiteral"]
                 ELSE tokens

\* C20: the stray-paren handler decides on the rewrite before it updates the
\* depth counter for both kinds of parenthesis: on a LeftParen the counter is
\* incremented after the check and on a RightParen it is decremented after
\* the check, and a parenthesis is rewritten to UnquotedLiteral exactly when
\* the depth is above 1 at the check.
C20_CheckBeforeCounterUpdate ==
    [][/\ AtParen("LeftParen") => ParenStep(paren_count, paren_count + 1)
       /\ AtParen("RightParen") => ParenStep(paren_count, paren_count - 1)]_vars

\* C20 as the code has it: on a LeftParen the counter is incremented before
\* the check and on a RightParen it is decremented after the check, and a
\* parenthesis is rewritten to UnquotedLiteral exactly when the depth is
\* above 1 at the check.
C20_LeftCountedBeforeCheck ==
    [][/\ AtParen("LeftParen") => ParenStep(paren_count + 1, paren_count + 1)
       /\ AtParen("RightParen") => ParenStep(paren_count, paren_count - 1)]_vars

\* a LeftParen met at depth 1 has just been rewritten, and the depth is 2
C20_SecondLeftParenRewritten ==
    /\ pc = "compress"
    /\ index > 0
    /\ paren_count = 2
    /\ tokens[index].type = "UnquotedLiteral"
    /\ tokens[index].content = <<"(">>

\* the children of a node in the order of the schema: the single fields in
\* order, then the elements of the multi fields in order
SchemaChildren(node) ==
    CASE node.kind = "ToplevelBody" -> node.statements
      [] node.kind = "FunctionCall" -> node.arguments
      [] node.kind \in FooterKinds ->
             <<node.header, node.footer>> \o node.body
      [] node.kind \in ClauseKinds -> <<node.header>> \o node.body
      [] node.kind = "IfBlock" ->
             <<node.if_statement>>
             \o (IF node.else_statement.kind = "NoneType" THEN <<>>
                 ELSE <<node.else_statement>>)
             \o <<node.footer>> \o node.elseif_statements
      [] OTHER -> <<>>

\* the callback of a node comes before the callback of each of its
\* descendants
VisitedBeforeDescendants ==
    \A i, j \in DOMAIN calls :
        (calls[j].node # calls[i].node
         /\ calls[j].node \in Nodes(calls[i].node)) => i < j

\* what is visited under an earlier child in the order of the schema comes
\* before what is visited under a later one
VisitedInSchemaOrder(n) ==
    \A a, b \in DOMAIN SchemaChildren(n) :
        a < b =>
            \A i, j \in DOMAIN calls :
                (calls[i].node \in Nodes(SchemaChildren(n)[a])
                 /\ calls[j].node \in Nodes(SchemaChildren(n)[b])) => i < j

\* C21: the visit is pre-order and follows the schema: the callback of a
\* node is invoked before that of any of its descendants, and the children
\* of a node are visited as all its single fields in schema order, then all
\* its multi fields in schema order; so the header and the footer of a
\* function, macro, foreach or while node are visited before any statement
\* of its body, and the if_statement, else_statement and footer of an
\* IfBlock before any of its elseif statements.
C21_PreOrderInSchemaOrder ==
    (pc = "done" /\ ParseReturned) =>
        /\ VisitedBeforeDescendants
        /\ \A n \in Nodes(tree) : VisitedInSchemaOrder(n)

\* a visit that called back for the footer of a function definition and
\* then for a statement of its body, and one that called back for the footer
\* of an IfBlock and then for an elseif statement
C21_FooterBeforeBody ==
    /\ pc = "done"
    /\ callbacks = Handlers
    /\ \E i, j \in DOMAIN calls :
           /\ i < j
           /\ \E n \in Nodes(tree) :
                  \/ /\ n.kind = "FunctionDefinition"
                     /\ calls[i].node = n.footer
                     /\ n.body # <<>>
                     /\ calls[j].node = n.body[1]
                  \/ /\ n.kind = "IfBlock"
                     /\ calls[i].node = n.footer
                     /\ n.elseif_statements # <<>>
                     /\ calls[j].node = n.elseif_statements[1]


\* an iteration of the loop of the compressor that leaves the loop running
CompressIteration == pc = "compress" /\ index < tokens_len /\ pc' = "compress"

\* the recorder at work in the iteration: the active one, or the one that
\* tokens[index] starts
RecorderAtWork == find_recorder(recorder, tokens, index)

\* the tokens of a list from the 0-based index i on
TokensFrom(toks, i) == SubSeq(toks, i + 1, Len(toks))

IsSuffix(s, t) ==
    Len(s) <= Len(t) /\ SubSeq(t, Len(t) - Len(s) + 1, Len(t)) = s

FusedTypes == {"Comment", "RST", "QuotedLiteral"}

\* the recorder takes tokens[index] and stays open: nothing is rewritten and
\* nothing is counted
RecorderTakesToken ==
    /\ recorder'.kind = RecorderAtWork.kind
    /\ recorder'.begin = RecorderAtWork.begin
    /\ index' = index + 1
    /\ tokens' = tokens
    /\ paren_count' = paren_count

\* the recorder that began at begin closes: nothing is counted, the tokens
\* before it stay, the tokens from begin up to the cursor are what it fused,
\* no token that was still to come is lost, and the text stays the same
RecorderCloses(begin) ==
    /\ recorder' = NoRecorder
    /\ paren_count' = paren_count
    /\ SubSeq(tokens', 1, begin) = SubSeq(tokens, 1, begin)
    /\ index' > begin
    /\ \A k \in (begin + 1)..index' :
           k <= Len(tokens') => tokens'[k].type \in FusedTypes
    /\ IsSuffix(TokensFrom(tokens, index + 1), TokensFrom(tokens', index'))
    /\ JoinContents(TokensFrom(tokens', begin))
       = JoinContents(TokensFrom(tokens, begin))

\* no recorder is at work: the edge-case handlers are applied to
\* tokens[index] and the loop goes on to the next token
EdgeCasesApplied ==
    /\ recorder' = NoRecorder
    /\ index' = index + 1
    /\ tokens' = EdgeCases(tokens, index, paren_count).tokens
    /\ paren_count' = EdgeCases(tokens, index, paren_count).paren_count

\* C22: during compression at most one recorder is active, and the edge-case
\* handlers are applied to a token exactly when it is not inside the range
\* of a recorder: a token that a recorder takes changes neither paren_depth
\* nor any token and starts no other recorder, and when a recorder closes
\* the loop goes on with the first token after the fused range, so that
\* every token outside the fused ranges is examined by the recorder start
\* predicates and the edge-case handlers exactly once.
C22_EdgeCasesExactlyOutsideRecorders ==
    [][CompressIteration =>
           IF RecorderAtWork.kind = "None" THEN EdgeCasesApplied
           ELSE \/ RecorderTakesToken
                \/ RecorderCloses(RecorderAtWork.begin)]_vars

\* tokenize has returned the end-quoted token that follows an RST block as
\* it was scanned: the stray end-quoted handler never saw it
C22_EndQuotedAfterRSTKept ==
    /\ contents = L_begin_rst \o L_stray_end_quoted
    /\ pc = "parse"
    /\ tokens[2].type = "EndDoubleQuotedLiteral"
    /\ tokens[2].line = 2


\* the kinds, names and contents of the tree under node, without the places
RECURSIVE Shape(_)
Shape(node) ==
    [kind |-> node.kind,
     name |-> IF node.kind = "FunctionCall" THEN node.name ELSE <<>>,
     word |-> IF node.kind = "Word" THEN <<node.type, node.contents>>
              ELSE <<>>,
     children |-> [i \in DOMAIN Children(node) |-> Shape(Children(node)[i])]]

InertTypes == {"Newline", "Comment", "RST"}

\* a token of an inert kind
InertToken(type) ==
    Token(type, IF type = "Newline" THEN <<"\n">> ELSE <<"#">>, 1, 1)

\* the list with the token t put in before the 0-based index p
InsertToken(toks, p, t) ==
    SubSeq(toks, 1, p) \o <<t>> \o SubSeq(toks, p + 1, Len(toks))

\* the list without the token at the 0-based index p
RemoveToken(toks, p) == SubSeq(toks, 1, p) \o SubSeq(toks, p + 2, Len(toks))

\* the parse r gave a tree of the same shape as the parse of tokens
SameTreeAs(r, parsed) ==
    /\ r.err = "none"
    /\ Shape(r.tree) = Shape(parsed.tree)

\* every list that is tokens with one inert token more, or with one inert
\* token less, parses to the tree that tokens parses to
InertForTheParser(parsed) ==
    /\ \A p \in 0..Len(tokens), type \in InertTypes :
           SameTreeAs(ParseTokens(InsertToken(tokens, p, InertToken(type))),
                      parsed)
    /\ \A p \in 0..(Len(tokens) - 1) :
           At(tokens, p).type \in InertTypes =>
               SameTreeAs(ParseTokens(RemoveToken(tokens, p)), parsed)

\* C23: Newline, Comment and RST tokens are inert for the parser: for any
\* compressed token stream that parses, inserting or removing such a token
\* at any position, also between a call name and its opening parenthesis or
\* between a block terminator keyword and its parenthesis, yields a tree
\* with the same node kinds, names and argument contents.
C23_InertTokens ==
    (pc = "parse" /\ ParseTokens(tokens).err = "none") =>
        InertForTheParser(ParseTokens(tokens))

\* the tokens of f (x) parse to a call, and with a Newline between the name
\* and the parenthesis they parse to no statement and two stray arguments
C23_NewlineBeforeParenthesis ==
    /\ contents = L_call_x
    /\ pc = "parse"
    /\ Len(ParseTokens(tokens).tree.statements) = 1
    /\ ParseTokens(InsertToken(tokens, 1, InertToken("Newline"))).err
       = "AssertionError"
    /\ Len(ParseTokens(InsertToken(tokens, 1, InertToken("Newline")))
               .body.arguments) = 2


\* tokens[i] is followed by a LeftParen
BeforeLeftParen(toks, i) ==
    i + 1 < Len(toks) /\ At(toks, i + 1).type = "LeftParen"

\* the token content is the terminator of the block whose body ends with
\* regex; nothing ends the top level
Closes(regex, content) ==
    CASE regex = "top" -> FALSE
      [] regex = "_RE_END_IF_BODY" -> content = Kw_endif
      [] OTHER -> RegexMatch(EndBodyRegex(regex), content)

\* the regex of the block that the call name opens, "None" when it opens none
Opens(content) ==
    CASE content = Kw_function -> "_RE_ENDFUNCTION"
      [] content = Kw_macro -> "_RE_ENDMACRO"
      [] content = Kw_foreach -> "_RE_ENDFOREACH"
      [] content = Kw_while -> "_RE_ENDWHILE"
      [] content = Kw_if -> "_RE_END_IF_BODY"
      [] OTHER -> "None"

\* the kind of the node of a statement that begins with the call name
StatementKind(content) ==
    CASE content = Kw_function -> "FunctionDefinition"
      [] content = Kw_macro -> "MacroDefinition"
      [] content = Kw_foreach -> "ForeachStatement"
      [] content = Kw_while -> "WhileStatement"
      [] content = Kw_if -> "IfBlock"
      [] OTHER -> "FunctionCall"

\* the tokens read from the 0-based index i on with the blocks that are open,
\* innermost last: the index of the call that closes the outermost of them
\* (-1 when none does) and the indices of the calls made while only the
\* outermost is open
RECURSIVE BlockScan(_, _, _, _)
BlockScan(toks, i, open, direct) ==
    IF i >= Len(toks) THEN [end |-> -1, direct |-> direct]
    ELSE IF ~BeforeLeftParen(toks, i) THEN BlockScan(toks, i + 1, open, direct)
    ELSE IF open # <<>> /\ Closes(open[Len(open)], At(toks, i).content)
    THEN IF Len(open) = 1 THEN [end |-> i, direct |-> direct]
         ELSE BlockScan(toks, i + 1, SubSeq(open, 1, Len(open) - 1), direct)
    ELSE IF At(toks, i).type = "Word"
    THEN BlockScan(toks, i + 1,
                   IF Opens(At(toks, i).content) # "None"
                   THEN Append(open, Opens(At(toks, i).content)) ELSE open,
                   IF Len(open) = 1 THEN direct \cup {i} ELSE direct)
    ELSE BlockScan(toks, i + 1, open, direct)

\* the index of the call that a statement begins with
HeadIndex(s) ==
    CASE s.kind = "FunctionCall" -> s.index
      [] s.kind = "IfBlock" -> s.if_statement.header.index
      [] OTHER -> s.header.index

\* the statements are the calls at the given indices, each a block of the
\* kind of its name when the name opens one and a FunctionCall otherwise
StatementsAre(statements, direct) ==
    /\ {HeadIndex(statements[k]) : k \in DOMAIN statements} = direct
    /\ \A k \in DOMAIN statements :
           statements[k].kind
           = StatementKind(At(tokens, HeadIndex(statements[k])).content)

\* the footer of the block is the call that closes it when the blocks opened
\* within it are closed by their own terminators, and its body is made of the
\* calls between the two that are in no nested block
NestedProperly(n) ==
    CASE n.kind \in FooterKinds ->
             /\ n.footer.index
                = BlockScan(tokens, n.header.index, <<>>, {}).end
             /\ StatementsAre(n.body,
                    BlockScan(tokens, n.header.index, <<>>, {}).direct)
      [] n.kind = "IfBlock" ->
             n.footer.index
             = BlockScan(tokens, n.if_statement.header.index, <<>>, {}).end
      [] n.kind = "ToplevelBody" ->
             StatementsAre(n.statements,
                           BlockScan(tokens, 0, <<"top">>, {}).direct)
      [] OTHER -> TRUE

\* C24: blocks nest properly: while a block body is being collected, a
\* nested block of any kind, the same kind included, is consumed as a whole
\* through its own terminator call and is a single statement of the outer
\* body, so that the footer of the outer block is the terminator call that
\* matches the outer header and the statements after the nested block still
\* belong to the outer body.
C24_BlocksNestProperly ==
    ParseReturned => \A n \in Nodes(tree) : NestedProperly(n)

\* a while block whose body is a while block followed by a call
C24_CallAfterNestedWhile ==
    /\ ParseReturned
    /\ \E n \in Nodes(tree) :
           /\ n.kind = "WhileStatement"
           /\ Len(n.body) = 2
           /\ n.body[1].kind = "WhileStatement"
           /\ n.body[1].footer.index < n.body[2].index
           /\ n.body[2].kind = "FunctionCall"
           /\ n.body[2].index < n.footer.index


LetterChars == LowerChars \cup UpperChars

\* [A-Za-z_][A-Za-z0-9_]*
IsIdentifier(s) ==
    /\ s # <<>>
    /\ s[1] \in LetterChars \cup {"_"}
    /\ \A k \in DOMAIN s : s[k] \in LetterChars \cup DigitChars \cup {"_"}

\* an optional - followed only by digits, one at least
IsNumber(s) ==
    /\ s # <<>>
    /\ Len(s) >= (IF s[1] = "-" THEN 2 ELSE 1)
    /\ \A k \in (IF s[1] = "-" THEN 2 ELSE 1)..Len(s) : s[k] \in DigitChars

\* ${ identifier }
IsDereference(s) ==
    /\ Len(s) >= 4
    /\ s[1] = "$" /\ s[2] = "{" /\ s[Len(s)] = "}"
    /\ IsIdentifier(SubSeq(s, 3, Len(s) - 1))

\* the type of an unquoted argument by its text
TypeOfText(s) ==
    IF IsIdentifier(s) THEN "Variable"
    ELSE IF IsNumber(s) THEN "Number"
    ELSE IF IsDereference(s) THEN "VariableDereference"
    ELSE "CompoundLiteral"

\* the arguments of the calls of the tree that are no strings
UnquotedArguments ==
    {n \in Nodes(tree) : n.kind = "Word" /\ n.type # "String"}

\* C25: an unquoted call argument is classified Variable exactly when its
\* whole text is an identifier [A-Za-z_][A-Za-z0-9_]* (its first character a
\* letter or an underscore, never a digit or punctuation), Number exactly
\* when it is an optional - followed only by digits, VariableDereference
\* exactly when it is ${ identifier }, and CompoundLiteral in every other
\* case.
C25_WordTypeByText ==
    ParseReturned => \A n \in UnquotedArguments : n.type = TypeOfText(n.contents)

\* the arguments [a and ^b have been parsed as Variable words, and ${^d} as
\* a VariableDereference
C25_PunctuationStartsVariable ==
    /\ ParseReturned
    /\ contents = L_call_words
    /\ \E n \in UnquotedArguments :
           n.contents = <<"[", "a">> /\ n.type = "Variable"
    /\ \E n \in UnquotedArguments :
           n.contents = <<"^", "b">> /\ n.type = "Variable"
    /\ \E n \in UnquotedArguments :
           /\ n.contents = <<"$", "{", "^", "d", "}">>
           /\ n.type = "VariableDereference"


\* calls that may stand in the body of an if clause: one whose name begins
\* with endif, and one whose name does not
IfBodyCalls == {L_endif_check, L_call}

\* parse returned one IfBlock whose if body is the one call of the given
\* line and whose footer is the endif
IfBodyIsTheCall(call) ==
    /\ error = "none"
    /\ ParseReturned
    /\ Len(tree.statements) = 1
    /\ tree.statements[1].kind = "IfBlock"
    /\ Len(tree.statements[1].if_statement.body) = 1
    /\ tree.statements[1].if_statement.body[1].kind = "FunctionCall"
    /\ IsPrefix(tree.statements[1].if_statement.body[1].name, call)
    /\ tree.statements[1].footer.name = Kw_endif

\* C26: the body collector of an if, elseif or else clause stops only at a
\* token whose content is exactly endif, elseif or else and that is followed
\* by a LeftParen: a call in the body to a function whose name only begins
\* with one of these words, such as endif_check (), is collected as an
\* ordinary FunctionCall statement of that body and the parsing of the if
\* block goes on to its endif.
C26_IfBodyStopsAtExactKeyword ==
    \A call \in IfBodyCalls :
        (contents = L_if \o call \o L_endif /\ pc = "done") =>
            IfBodyIsTheCall(call)

\* the call endif_check () in the body of an if has ended the parse in the
\* assertion of _handle_if_block
C26_LongerNameEndsIfBody ==
    /\ contents = L_if \o L_endif_check \o L_endif
    /\ pc = "done"
    /\ error = "AssertionError"
    /\ tree.kind = "NoneType"


\* the tokens scanned from a text that begins at the given line and column
\* of the source, each at its place in the source
RECURSIVE AtSourcePosition(_, _, _)
AtSourcePosition(after, line, col) ==
    IF after = <<>> THEN <<>>
    ELSE << [type |-> Head(after).type, content |-> Head(after).content,
             line |-> line + Head(after).line - 1,
             col |-> IF Head(after).line = 1
                     THEN col + Head(after).col - 1
                     ELSE Head(after).col] >>
         \o AtSourcePosition(Tail(after), line, col)

\* the compressor is about to look, inside an open multi-line string, at a
\* begin-quoted token of the flavor of the string
AtClosingBeginQuoted ==
    /\ InMultilineString
    /\ index # recorder.begin
    /\ tokens[index + 1].type = BeginLiteralType(recorder.quote_type)

\* the first character of the token closing closes the string that the token
\* opening began, and the tokens of the rest follow the QuotedLiteral
StringClosedByFirstCharacter(opening, closing, rest) ==
    /\ pc' = "compress"
    /\ recorder' = NoRecorder
    /\ index' = opening
    /\ tokens_len' = Len(tokens')
    /\ tokens' = SubSeq(tokens, 1, opening - 1)
                 \o << [type |-> "QuotedLiteral",
                        content |-> JoinContents(SubSeq(tokens, opening,
                                                        closing - 1))
                                    \o <<Head(tokens[closing].content)>>,
                        line |-> tokens[opening].line,
                        col |-> tokens[opening].col] >>
                 \o rest
                 \o SubSeq(tokens, closing + 1, Len(tokens))

\* C27: when a begin-quoted token of the flavor of the open multi-line
\* string is met inside it, its first character closes the string, which
\* becomes a single QuotedLiteral, and the rest of the token is scanned again
\* into tokens that come directly after the QuotedLiteral, each with its
\* place in the source: the line it is on and the column of the character it
\* starts with.
C27_RestOfClosingTokenAtSourcePosition ==
    [][AtClosingBeginQuoted =>
           StringClosedByFirstCharacter(
               recorder.begin + 1, index + 1,
               AtSourcePosition(
                   scan_for_tokens(Tail(tokens[index + 1].content)).tokens,
                   tokens[index + 1].line,
                   tokens[index + 1].col + 1))]_vars

\* tokenize has returned the e of f ("a\n"e)\n, the second character of
\* line 2, at column 1
C27_RestOneColumnLeft ==
    /\ contents = L_call_open_double \o L_begin_closes_double
    /\ pc = "parse"
    /\ \E k \in DOMAIN tokens :
           /\ tokens[k].content = <<"e">>
           /\ tokens[k].line = 2
           /\ tokens[k].col = 1
    /\ contents[Len(L_call_open_double) + 2] = "e"


\* the scanner gave its tokens, and the compressor has not returned an error
TokensBeforeFilter == pc \in {"compress", "filter"}

\* C28: scanning and compression lose no text: on every input the scanner
\* matches every character, so that the error of unknown tokens is never
\* raised, and after the scan, after every splice of a recorder and after
\* every rewrite of an edge case the contents of the tokens in order, put
\* together, are the input text; no character is dropped, doubled or moved
\* before whitespace is filtered out.
C28_TextKept ==
    /\ error # "Unknown tokens"
    /\ TokensBeforeFilter => JoinContents(tokens) = contents

\* the compressor has returned after it closed the string of f ("a\n"e)\n
\* with the first character of "e) and put the tokens of the rest after it
C28_TextKeptAfterSplice ==
    /\ contents = L_call_open_double \o L_begin_closes_double
    /\ pc = "filter"
    /\ Len(tokens) = 7
    /\ tokens[4].type = "QuotedLiteral"
    /\ tokens[4].content = <<"\"", "a", "\n", "\"">>
    /\ tokens[5].content = <<"e">>


\* tokens[i] is the name of a call: a Word directly followed by a LeftParen
IsCallHead(toks, i) == At(toks, i).type = "Word" /\ BeforeLeftParen(toks, i)

\* the nodes of the tree of the given kind that were made from tokens[i]
NodesOfToken(kind, i) ==
    {n \in Nodes(tree) : n.kind = kind /\ n.index = i}

\* tokens[i] is in the tree as one node of the kind, with its text
OneNodeOfToken(kind, i) ==
    /\ Cardinality(NodesOfToken(kind, i)) = 1
    /\ \A n \in NodesOfToken(kind, i) :
           At(tokens, i).content
           = IF kind = "Word" THEN n.contents ELSE n.name

\* C29: nothing that is parsed is dropped without notice: whenever parse
\* returns a tree, every word-class token of the compressed tokens that is
\* not the name of a call is exactly one Word node of the tree and every
\* name of a call is exactly one FunctionCall, also for the words written
\* directly in the body of a block and for the clauses of an if block with
\* more than one else.
C29_EveryTokenInTheTree ==
    ParseReturned =>
        \A i \in 0..(Len(tokens) - 1) :
            IF IsCallHead(tokens, i) THEN OneNodeOfToken("FunctionCall", i)
            ELSE is_word_type(At(tokens, i).type) => OneNodeOfToken("Word", i)

\* parse has returned the tree of function (f)\nx\nendfunction ()\n without
\* the word x of the body
C29_WordOfBodyDropped ==
    /\ contents = L_function \o L_word \o L_endfunction
    /\ ParseReturned
    /\ At(tokens, 5).content = <<"x">>
    /\ At(tokens, 5).type = "Word"
    /\ NodesOfToken("Word", 5) = {}
    /\ tree.statements[1].body = <<>>


\* while index < tokens_len: the loop makes another iteration
LoopGoesOn == pc = "compress" /\ index < tokens_len

\* weak fairness of CompressStep, WF_vars(CompressStep), written with the
\* condition of the loop for ENABLED <<CompressStep>>_vars: the two are the
\* same as long as every iteration changes the state
CompressStepFair == []<>(~LoopGoesOn) \/ []<><<CompressStep>>_vars

\* the while loop of _compress_tokens runs on: the iteration that the loop
\* condition allows is made, and the loop is left when it allows none
FairSpec == Spec /\ CompressStepFair /\ WF_vars(CompressExit)

\* the loop of the compressor is running
InCompressorLoop == pc = "compress"

\* the iteration that the loop is about to make changes the state of the
\* loop or ends it with an error
IterationMoves ==
    LoopGoesOn => compress_iteration(CompressState) # CompressState

\* C30: the main loop of the compressor terminates on every finite list of
\* tokens: although a recorder that closes puts the cursor back to the start
\* of its range and the edge case of the multi-line string makes the list
\* longer, the cursor reaches the end of the list, or an error ends the
\* loop, whatever recorders, splices and rewrites take place.
C30_CompressorLoopTerminates ==
    [](IterationMoves) /\ (InCompressorLoop ~> ~InCompressorLoop)

\* the cursor is at the end of the list of f ("a\n"e)\n, which the edge case
\* of the multi-line string made two tokens longer than the scanner left it
C30_EndOfLongerList ==
    /\ contents = L_call_open_double \o L_begin_closes_double
    /\ InCompressorLoop
    /\ index = tokens_len
    /\ tokens_len = 7
    /\ Len(scan_for_tokens(contents).tokens) = 5

====
